---------------------------- MODULE Spec2Model ----------------------------
(***************************************************************************)
(* Etymos: the App search lifecycle (handleBloom / fetchEtymology with its *)
(* retry loop) and the node-list normalisation and layout of the           *)
(* TreeDiagram and FlowchartDiagram components.                            *)
(*                                                                         *)
(* Encoding of JavaScript values:                                          *)
(*   - an object-or-null state (etymologyData, tooltip) is a record, and   *)
(*     null is the record Null;                                            *)
(*   - a string-or-null state (error) is a string, and null is NullStr;    *)
(*   - parentId null is the empty string (both are falsy, which is all the *)
(*     code tests);                                                        *)
(*   - a missing or empty word/language is the empty string (both falsy).  *)
(* State updates made in one synchronous run of a handler or of a promise  *)
(* continuation are committed together (React batches them), so each such  *)
(* run is one action.                                                      *)
(***************************************************************************)
EXTENDS Integers, Sequences, FiniteSets, TLC

VARIABLES
  \* ---- App (src/unnamed/part_000) ----
  activePage,          \* 'home' | 'garden'
  etymologyData,       \* EtymologyTree | null
  isLoading,
  loadingProgress,
  error,               \* string | null
  currentSearchWord,
  showConfetti,
  tooltip,             \* {x, y, content} | null
  \* ---- SearchInput (src/unnamed/part_011) ----
  inputWord,           \* the text in the search box
  \* ---- asynchronous machinery ----
  calls,               \* handleBloom invocations: in flight, or the last settled one
  confettiTimers,      \* pending setTimeout(() => setShowConfetti(false), 3000)
  \* ---- history ----
  nAccepted,           \* number of handleBloom calls that passed the guard
  nIssued,             \* number of handleBloom calls made with a non-empty word
  lastIssued,          \* the word of the latest such call
  \* ---- the mounted view: TreeDiagram (src/unnamed/part_007) or
  \*      FlowchartDiagram (src/components/FlowchartDiagram.tsx) ----
  visualizationMode,   \* App: 'tree' | 'flowchart'
  container,           \* containerRef.current.getBoundingClientRect(): <<width, height>>
  nodes,               \* MindmapNode[]
  svgDimensions,
  transformState,
  initialTransformSet,
  dataEffectRan,       \* the effect on [data] has run for the current data
  effectDeps,          \* dependency values at the last run of the layout effect
  listener,            \* the handleResize closure registered on window 'resize'
  lastLayout,          \* history: arguments of the latest calculateLayout call
  drawDeps,            \* RadialTree: `dimensions` at the last run of the drawing effect
  isPanning,
  startPanPoint,
  searchTerm,          \* App: the 'Find root' text, handed to the view as a prop
  \* ---- history of the mouse ----
  drag,                \* pointer and translation at the latest mouse-down
  lastMouse,           \* the latest mouse event of the svg
  nDrags,              \* number of mouse-downs
  \* ---- App: export (src/unnamed/part_000, src/utils/exportUtils.ts) ----
  exportTrigger,       \* { format, timestamp } | null
  isExportingRef,      \* isExportingRef.current
  exports,             \* calls of exportSvgAs / exportHtmlAs that have not returned
  resetTimers,         \* pending setTimeout(() => { isExportingRef.current = false }, 500)
  files,               \* history: the names of the files downloaded
  nClicks,             \* history: clicks on an export format
  nStarted,            \* history: calls of exportSvgAs / exportHtmlAs
  \* ---- ForceDirectedGraph, ChronologicalLine ----
  isFullScreen,        \* App
  simulations,         \* the d3 simulations created so far: [running, ticks]
  lastTick,            \* history: the simulation whose tick ran last, and what it wrote
  nodesRef             \* identity of the array held in `nodes`

appVars == <<activePage, etymologyData, isLoading, loadingProgress, error,
             currentSearchWord, showConfetti, tooltip, inputWord, calls,
             confettiTimers, nAccepted, nIssued, lastIssued>>

panVars == <<isPanning, startPanPoint, drag, lastMouse, nDrags>>

viewVars == <<visualizationMode, container, nodes, svgDimensions, transformState,
              initialTransformSet, dataEffectRan, effectDeps, listener, lastLayout,
              drawDeps, searchTerm, panVars>>

exportVars == <<exportTrigger, isExportingRef, exports, resetTimers, files, nClicks, nStarted>>

forceVars == <<isFullScreen, simulations, lastTick, nodesRef>>

otherVars == <<exportVars, forceVars>>

vars == <<appVars, viewVars, otherVars>>

-----------------------------------------------------------------------------
(* Bounds *)

MaxCalls == 2        \* accepted handleBloom calls in one behaviour
MaxIssued == 3       \* handleBloom calls with a non-empty word in one behaviour

-----------------------------------------------------------------------------
(* Values *)

Null == [null |-> TRUE]
NullStr == "null"

\* the value of a property an object does not have
Undefined == "undefined"

\* obj.name, for an optional property
Get(obj, name) == IF name \in DOMAIN obj THEN obj[name] ELSE Undefined

\* what the user types into the search box
InputTexts == {"", " ", "night", " sun "}

\* GardenSection.seeds (two of the ten)
seeds == {"Cosmos", "Light"}

\* samples of Math.min(95, 95 * (1 - Math.exp(-elapsed / 400)))
ProgressSamples == {50, 95}

-----------------------------------------------------------------------------
(* Strings *)

\* String.prototype.includes
Includes(str, sub) ==
  \E i \in 1..(Len(str) - Len(sub) + 1) : SubSeq(str, i, i + Len(sub) - 1) = sub

IsSpace(c) == c = " "

RECURSIVE TrimStart(_)
TrimStart(s) ==
  IF Len(s) > 0 /\ IsSpace(SubSeq(s, 1, 1)) THEN TrimStart(SubSeq(s, 2, Len(s))) ELSE s

RECURSIVE TrimEnd(_)
TrimEnd(s) ==
  IF Len(s) > 0 /\ IsSpace(SubSeq(s, Len(s), Len(s)))
  THEN TrimEnd(SubSeq(s, 1, Len(s) - 1)) ELSE s

\* String.prototype.trim
Trim(s) == TrimEnd(TrimStart(s))

-----------------------------------------------------------------------------
(* The generative-AI service: what one generateContent call answers *)

\* the tree the service answers for a word: root = the word asked for
ServiceTree(word) ==
  [word |-> word, language |-> "English",
   children |-> << [word |-> "root", language |-> "PIE", children |-> << >>] >>]

\* an answer either rejects with an error or resolves with a response text;
\* a text is well-formed JSON (with the value it parses to) or it is not
Rejected(message) == [rejects |-> TRUE, message |-> message, raw |-> "", wellFormed |-> FALSE]
Text(raw, wellFormed) == [rejects |-> FALSE, message |-> "", raw |-> raw, wellFormed |-> wellFormed]

Answers ==
  { Text("{json}", TRUE),                       \* a tree
    Text(" ", FALSE),                           \* blank text
    Text("<html>", FALSE),                      \* malformed
    Text("error 429", FALSE),                   \* malformed, and the text has 429 in it
    Rejected("429 RESOURCE_EXHAUSTED"),         \* rate limit
    Rejected("500 INTERNAL") }                  \* any other error

IsRateLimit(a) == a.rejects /\ a.message = "429 RESOURCE_EXHAUSTED"

\* JSON.parse of a text that is not JSON throws a SyntaxError whose message
\* quotes the text
SyntaxErrorMessage(raw) == "Unexpected token, \"" \o raw \o "\" is not valid JSON"

-----------------------------------------------------------------------------
(* fetchEtymology (src/services/geminiService.ts) *)

DefaultRetries == 3

\* the try block: what one attempt makes of the service's answer
\*   threw = FALSE, value = Null : return null   (empty text)
\*   threw = FALSE, value = tree : return data
\*   threw = TRUE                : control enters the catch block with message
tryBlock(answer, word) ==
  IF answer.rejects
  THEN [threw |-> TRUE, message |-> answer.message, value |-> Null]
  ELSE LET text == Trim(answer.raw) IN
       IF text = ""
       THEN [threw |-> FALSE, message |-> "", value |-> Null]
       ELSE IF answer.wellFormed
            THEN [threw |-> FALSE, message |-> "", value |-> ServiceTree(word)]
            ELSE [threw |-> TRUE, message |-> SyntaxErrorMessage(text), value |-> Null]

\* the catch block's test: error?.message?.includes('429') && retries > 0
RetryAllowed_Unbounded(message, retries) == Includes(message, "429")

RetryAllowed(message, retries) == Includes(message, "429") /\ retries > 0

\* await delay(1000 * (4 - retries))
backoffMs_Constant(retries) == 1000

backoffMs(retries) == 1000 * (4 - retries)

-----------------------------------------------------------------------------
(* The mounted view: App renders it while a tree is held and nothing loads *)

\* transformState.scale: the number (num / den) * 1.1^e, where e counts the
\* wheel steps since the scale was last set or clamped
ScaleOf(num, den) == [num |-> num, den |-> den, e |-> 0]

\* the state that belongs to one mount of a view
mountVars == <<nodes, svgDimensions, transformState, initialTransformSet, dataEffectRan,
               effectDeps, listener, lastLayout, drawDeps, isPanning, startPanPoint,
               drag, lastMouse, simulations, nodesRef>>

\* simulation.stop() in the cleanup of ForceDirectedGraph's layout effect
stopOnCleanup_Never(sims) == sims

stopOnCleanup(sims) == [k \in DOMAIN sims |-> [sims[k] EXCEPT !.running = FALSE]]

\* the view is unmounted (a search starts, or another view is chosen): its
\* effects' cleanups run, and the next mount starts from the useState
\* initial values
ViewUnmounted ==
  /\ nodes' = << >>
  /\ svgDimensions' = [width |-> 0, height |-> 0]
  /\ transformState' = [scale |-> ScaleOf(1, 1), translateX |-> 0, translateY |-> 0]
  /\ initialTransformSet' = FALSE
  /\ dataEffectRan' = FALSE
  /\ effectDeps' = << >>
  /\ listener' = Null
  /\ lastLayout' = Null
  /\ drawDeps' = Null
  /\ isPanning' = FALSE
  /\ startPanPoint' = [x |-> 0, y |-> 0]
  /\ drag' = Null
  /\ lastMouse' = Null
  /\ simulations' = stopOnCleanup(simulations)
  /\ nodesRef' = 0

-----------------------------------------------------------------------------
(* App.handleBloom (src/unnamed/part_000) *)

BloomFailedMessage == "Bloom failed. Try another word."

\* if (!word || isLoading) return;
handleBloomGuard_NoLoadingCheck(word, loading) == word # ""

handleBloomGuard(word, loading) == word # "" /\ ~loading

\* setEtymologyData(null) when a search starts
dataOnStart_Keep(old) == old

dataOnStart(old) == Null

\* setError("Bloom failed. Try another word.") in the catch block
errorOnCatch_Leak(message) == message

errorOnCatch(message) == BloomFailedMessage

\* setIsLoading(false) in the finally block, whether or not the try block threw
loadingOnSettle_OnlyOnSuccess(threw) == threw

loadingOnSettle(threw) == FALSE

Pending(c) == c.pc # "done"

NewCall(word) ==
  [word |-> word, pc |-> "fetching", retries |-> DefaultRetries, attempts |-> 1,
   history |-> << >>, waits |-> << >>, interval |-> TRUE, outcome |-> "pending"]

\* handleBloom up to its await: the guard, the state resets, the progress
\* interval and the first attempt of fetchEtymology
handleBloom(word) ==
  /\ nIssued' = IF word # "" THEN nIssued + 1 ELSE nIssued
  /\ lastIssued' = IF word # "" THEN word ELSE lastIssued
  /\ IF handleBloomGuard(word, isLoading)
     THEN /\ currentSearchWord' = word
          /\ isLoading' = TRUE
          /\ loadingProgress' = 0
          /\ error' = NullStr
          /\ etymologyData' = dataOnStart(etymologyData)
          /\ showConfetti' = FALSE
          /\ calls' = Append(SelectSeq(calls, Pending), NewCall(word))
          /\ nAccepted' = nAccepted + 1
          /\ ViewUnmounted
     ELSE UNCHANGED <<currentSearchWord, isLoading, loadingProgress, error,
                      etymologyData, showConfetti, calls, nAccepted, mountVars>>
  /\ UNCHANGED <<tooltip, confettiTimers>>

\* a call of handleBloom the bounds leave room for
Room(word) ==
  /\ nIssued < MaxIssued
  /\ handleBloomGuard(word, isLoading) => nAccepted < MaxCalls

-----------------------------------------------------------------------------
(* User events *)

\* SearchInput: onChange={(e) => setWord(e.target.value)}; disabled while loading
TypeWord(w) ==
  /\ activePage = "home" /\ ~isLoading
  /\ inputWord' = w /\ inputWord # w
  /\ UNCHANGED <<activePage, etymologyData, isLoading, loadingProgress, error,
                 currentSearchWord, showConfetti, tooltip, calls, confettiTimers,
                 nAccepted, nIssued, lastIssued>>
  /\ UNCHANGED viewVars
  /\ UNCHANGED otherVars

\* SearchInput.handleBloom: if (word.trim() !== '') onBloom(word)
SearchInput_handleBloom ==
  IF Trim(inputWord) # ""
  THEN Room(inputWord) /\ handleBloom(inputWord)
  ELSE UNCHANGED <<etymologyData, isLoading, loadingProgress, error,
                   currentSearchWord, showConfetti, tooltip, calls, confettiTimers,
                   nAccepted, nIssued, lastIssued, mountVars>>

\* the Bloom button: onClick={handleBloom}, disabled={isLoading}
ClickBloom ==
  /\ activePage = "home" /\ ~isLoading
  /\ SearchInput_handleBloom
  /\ UNCHANGED <<activePage, inputWord>>
  /\ UNCHANGED <<visualizationMode, container, searchTerm, nDrags, exportVars,
                 isFullScreen, lastTick>>

\* handleKeyPress: if (e.key === 'Enter' && !isLoading) handleBloom()
PressEnter ==
  /\ activePage = "home" /\ ~isLoading
  /\ SearchInput_handleBloom
  /\ UNCHANGED <<activePage, inputWord>>
  /\ UNCHANGED <<visualizationMode, container, searchTerm, nDrags, exportVars,
                 isFullScreen, lastTick>>

\* nav: onClick={() => setActivePage('garden')}
OpenGarden ==
  /\ activePage = "home"
  /\ activePage' = "garden"
  /\ UNCHANGED <<etymologyData, isLoading, loadingProgress, error,
                 currentSearchWord, showConfetti, tooltip, inputWord, calls,
                 confettiTimers, nAccepted, nIssued, lastIssued>>
  /\ UNCHANGED viewVars
  /\ UNCHANGED otherVars

\* GardenSection: onClose
CloseGarden ==
  /\ activePage = "garden"
  /\ activePage' = "home"
  /\ UNCHANGED <<etymologyData, isLoading, loadingProgress, error,
                 currentSearchWord, showConfetti, tooltip, inputWord, calls,
                 confettiTimers, nAccepted, nIssued, lastIssued>>
  /\ UNCHANGED viewVars
  /\ UNCHANGED otherVars

\* GardenSection: onClick={() => { onSelect(seed); onClose(); }}
GardenSelect(seed) ==
  /\ activePage = "garden"
  /\ Room(seed)
  /\ handleBloom(seed)
  /\ activePage' = "home"
  /\ UNCHANGED inputWord
  /\ UNCHANGED <<visualizationMode, container, searchTerm, nDrags, exportVars,
                 isFullScreen, lastTick>>

\* a view's onNodeHover={setTooltip}, here for the root node of the rendered tree
NodeHover ==
  /\ activePage = "home" /\ ~isLoading /\ etymologyData # Null
  /\ tooltip = Null
  /\ tooltip' = [x |-> 0, y |-> 0,
                 content |-> [word |-> etymologyData.word,
                              language |-> etymologyData.language]]
  /\ UNCHANGED <<activePage, etymologyData, isLoading, loadingProgress, error,
                 currentSearchWord, showConfetti, inputWord, calls, confettiTimers,
                 nAccepted, nIssued, lastIssued>>
  /\ UNCHANGED viewVars
  /\ UNCHANGED otherVars

\* onNodeLeave={() => setTooltip(null)}
NodeLeave ==
  /\ activePage = "home" /\ ~isLoading /\ etymologyData # Null
  /\ tooltip # Null
  /\ tooltip' = Null
  /\ UNCHANGED <<activePage, etymologyData, isLoading, loadingProgress, error,
                 currentSearchWord, showConfetti, inputWord, calls, confettiTimers,
                 nAccepted, nIssued, lastIssued>>
  /\ UNCHANGED viewVars
  /\ UNCHANGED otherVars

-----------------------------------------------------------------------------
(* Asynchronous steps *)

\* the setInterval callback of call i: setLoadingProgress(currentP)
ProgressTick(i, p) ==
  /\ calls[i].interval
  /\ loadingProgress # p
  /\ loadingProgress' = p
  /\ UNCHANGED <<activePage, etymologyData, isLoading, error, currentSearchWord,
                 showConfetti, tooltip, inputWord, calls, confettiTimers,
                 nAccepted, nIssued, lastIssued>>
  /\ UNCHANGED viewVars
  /\ UNCHANGED otherVars

\* setTimeout(() => setShowConfetti(false), 3000)
ConfettiTimeout ==
  /\ confettiTimers > 0
  /\ confettiTimers' = confettiTimers - 1
  /\ showConfetti' = FALSE
  /\ UNCHANGED <<activePage, etymologyData, isLoading, loadingProgress, error,
                 currentSearchWord, tooltip, inputWord, calls, nAccepted, nIssued,
                 lastIssued>>
  /\ UNCHANGED viewVars
  /\ UNCHANGED otherVars

\* the continuation of handleBloom after `await fetchEtymology(word)` settles
\* with result r (lines 199-213): try / catch / finally
handleBloomSettle(i, r, a) ==
  /\ IF ~r.threw /\ r.value # Null
     THEN /\ loadingProgress' = 100
          /\ etymologyData' = r.value
          /\ showConfetti' = TRUE
          /\ confettiTimers' = confettiTimers + 1
          /\ error' = error
     ELSE /\ error' = errorOnCatch(IF r.threw THEN r.message ELSE "Could not find lineage.")
          /\ UNCHANGED <<loadingProgress, etymologyData, showConfetti, confettiTimers>>
  /\ isLoading' = loadingOnSettle(r.threw)
  /\ tooltip' = Null
  /\ calls' = [calls EXCEPT ![i] =
                 [@ EXCEPT !.pc = "done", !.interval = FALSE,
                           !.history = Append(@, a),
                           !.outcome = IF r.threw THEN "threw"
                                       ELSE IF r.value = Null THEN "null" ELSE "data"]]

\* the generateContent call of attempt `attempts` of call i answers a:
\* fetchEtymology either waits and retries, or settles and handleBloom continues
AnswerArrives(i, a) ==
  /\ calls[i].pc = "fetching"
  /\ LET c == calls[i]
         r == tryBlock(a, c.word)
     IN IF r.threw /\ RetryAllowed(r.message, c.retries)
        THEN /\ calls' = [calls EXCEPT ![i] =
                            [@ EXCEPT !.pc = "delaying",
                                      !.history = Append(@, a),
                                      !.waits = Append(@, backoffMs(c.retries))]]
             /\ UNCHANGED <<etymologyData, isLoading, loadingProgress, error,
                            showConfetti, tooltip, confettiTimers>>
        ELSE handleBloomSettle(i, r, a)
  /\ UNCHANGED <<activePage, currentSearchWord, inputWord, nAccepted, nIssued, lastIssued>>
  /\ UNCHANGED viewVars
  /\ UNCHANGED otherVars

\* the delay of call i elapses: return fetchEtymology(word, retries - 1)
DelayElapsed(i) ==
  /\ calls[i].pc = "delaying"
  /\ calls' = [calls EXCEPT ![i] =
                 [@ EXCEPT !.pc = "fetching", !.retries = @ - 1, !.attempts = @ + 1]]
  /\ UNCHANGED <<activePage, etymologyData, isLoading, loadingProgress, error,
                 currentSearchWord, showConfetti, tooltip, inputWord, confettiTimers,
                 nAccepted, nIssued, lastIssued>>
  /\ UNCHANGED viewVars
  /\ UNCHANGED otherVars

-----------------------------------------------------------------------------
(* Trees handed to the views *)

MaxNodes == 5        \* nodes of a tree
MaxInvalid == 1      \* nodes of a tree with an empty word or language

ValidLabels == { <<"a", "L">>, <<"b", "L">> }
InvalidLabels == { <<"", "L">>, <<"a", "">> }

MkTree(l, f) == [word |-> l[1], language |-> l[2], children |-> f]

\* <<Op(0), ..., Op(q)>>
RECURSIVE ByInvalid(_, _)
ByInvalid(Op(_), q) ==
  IF q = 0 THEN << Op(0) >> ELSE Append(ByInvalid(Op, q - 1), Op(q))

\* the trees of 1..n nodes and the forests (children lists) of 0..n-1 nodes,
\* by their number q of invalid nodes: trees[k][q + 1], forests[k + 1][q + 1];
\* each size is built once from the smaller ones
RECURSIVE TreeTables(_)
TreeTables(n) ==
  IF n = 0
  THEN [trees |-> << >>, forests |-> << >>]
  ELSE LET prev == TreeTables(n - 1)
           k == n - 1
           forestsK(q) ==
             IF k = 0
             THEN IF q = 0 THEN { << >> } ELSE {}
             ELSE { tf[1] \o tf[2] :
                      tf \in { x \in UNION { { <<t>> : t \in prev.trees[j[1]][j[2] + 1] }
                                               \X prev.forests[k - j[1] + 1][q - j[2] + 1] :
                                             j \in (1..k) \X (0..q) } : TRUE } }
           forests == Append(prev.forests, ByInvalid(forestsK, MaxInvalid))
           treesN(q) ==
             { MkTree(lf[1], lf[2]) :
                 lf \in { x \in (ValidLabels \X forests[n][q + 1])
                                  \cup (IF q > 0
                                        THEN InvalidLabels \X forests[n][q]
                                        ELSE {}) : TRUE } }
       IN [trees |-> Append(prev.trees, ByInvalid(treesN, MaxInvalid)),
           forests |-> forests]

TreeTable == TreeTables(MaxNodes)

\* trees of n nodes, q of them invalid; forests (children lists) likewise
TreesNQ(n, q) == TreeTable.trees[n][q + 1]

ForestsNQ(k, q) == TreeTable.forests[k + 1][q + 1]

\* the trees of at most n nodes, those of n nodes with at most q invalid ones
RECURSIVE TreesUpTo(_, _)
TreesUpTo(n, q) ==
  IF n = 0 THEN {}
  ELSE IF q < 0 THEN TreesUpTo(n - 1, MaxInvalid)
  ELSE TreesNQ(n, q) \cup TreesUpTo(n, q - 1)

Trees == TreesUpTo(MaxNodes, MaxInvalid)

\* container sizes: getBoundingClientRect() of a min-h-[600px] container
Sizes == { <<800, 600>>, <<1001, 701>> }

-----------------------------------------------------------------------------
(* Coordinates: a JavaScript number v is the integer v * Scale, so that the   *)
(* halvings of the layout code are exact                                     *)

Scale == 2 ^ MaxNodes
Px(v) == v * Scale
Half(v) == v \div 2
Max(a, b) == IF a >= b THEN a ELSE b
SetMin(S) == CHOOSE v \in S : \A u \in S : v <= u
SetMax(S) == CHOOSE v \in S : \A u \in S : v >= u

RECURSIVE Flatten(_)
Flatten(ss) == IF ss = << >> THEN << >> ELSE Head(ss) \o Flatten(Tail(ss))

\* `${tree.word}-${tree.language}-${level}-${index}`
NodeId(word, language, level, index) ==
  word \o "-" \o language \o "-" \o ToString(level) \o "-" \o ToString(index)

\* a Map<string, MindmapNode> is the sequence of its values in insertion order
MapHas(m, id) == \E i \in DOMAIN m : m[i].id = id
MapIdx(m, id) == CHOOSE i \in DOMAIN m : m[i].id = id
MapGet(m, id) == m[MapIdx(m, id)]
MapSet(m, node) ==
  IF MapHas(m, node.id) THEN [m EXCEPT ![MapIdx(m, node.id)] = node] ELSE Append(m, node)

\* new Map(entries)
RECURSIVE MapFromEntries(_, _)
MapFromEntries(m, entries) ==
  IF entries = << >> THEN m ELSE MapFromEntries(MapSet(m, Head(entries)), Tail(entries))

\* flatNodes.map(node => [node.id, { ...node, x: -1000, y: -1000 }])
HiddenCopies(flatNodes) ==
  [i \in DOMAIN flatNodes |-> [flatNodes[i] EXCEPT !.x = Px(-1000), !.y = Px(-1000)]]

-----------------------------------------------------------------------------
(* TreeDiagram (src/unnamed/part_007) *)

NODE_WIDTH == 220
NODE_HEIGHT == 80
HORIZONTAL_SPACING == 120
VERTICAL_SPACING == 60
LEVEL_OFFSET == 300

\* if (child && child.word && child.language)
validChild_Always(child) == TRUE

validChild(child) == child.word # "" /\ child.language # ""

\* the MindmapNode of flattenTree (of the fields that neither the layout nor
\* the tooltip reads, only `highlighted` is kept)
MindmapNode(id, tree, parentId, childrenIds, level, w, h) ==
  [id |-> id, word |-> tree.word, language |-> tree.language,
   meaning |-> Get(tree, "meaning"), parentId |-> parentId,
   childrenIds |-> childrenIds, level |-> level, isExpanded |-> TRUE,
   x |-> 0, y |-> 0, width |-> w, height |-> h, highlighted |-> FALSE,
   subtreeHeight |-> 0, subtreeWidth |-> 0]

RECURSIVE flattenTree(_, _, _, _)
flattenTree(tree, parentId, level, index) ==
  IF tree.word = "" \/ tree.language = ""
  THEN << >>
  ELSE LET id == NodeId(tree.word, tree.language, level, index)
           kept == SelectSeq([k \in 1..Len(tree.children) |-> k],
                             LAMBDA k : validChild(tree.children[k]))
           childrenIds == [j \in 1..Len(kept) |->
                             NodeId(tree.children[kept[j]].word, tree.children[kept[j]].language,
                                    level + 1, kept[j] - 1)]
           childrenNodes == Flatten([j \in 1..Len(kept) |->
                               flattenTree(tree.children[kept[j]], id, level + 1, kept[j] - 1)])
       IN << MindmapNode(id, tree, parentId, childrenIds, level, NODE_WIDTH, NODE_HEIGHT) >>
            \o childrenNodes

\* the filter of visibleNodes: every ancestor is in the map and expanded
RECURSIVE AncestorsExpanded(_, _)
AncestorsExpanded(current, nodesMap) ==
  IF current.parentId = "" THEN TRUE
  ELSE IF ~MapHas(nodesMap, current.parentId) THEN FALSE
  ELSE LET parent == MapGet(nodesMap, current.parentId)
       IN IF ~parent.isExpanded THEN FALSE ELSE AncestorsExpanded(parent, nodesMap)

ChildrenOf(visibleNodes, nodeId) == SelectSeq(visibleNodes, LAMBDA c : c.parentId = nodeId)

\* returns the map as written, with { totalHeight, maxWidth }
RECURSIVE calculateSubtreeDimensions(_, _, _), SubtreeDimensionsOfChildren(_, _, _, _, _)
calculateSubtreeDimensions(nodesMap, nodeId, visibleNodes) ==
  IF ~MapHas(nodesMap, nodeId)
  THEN [map |-> nodesMap, totalHeight |-> 0, maxWidth |-> 0]
  ELSE LET children == ChildrenOf(visibleNodes, nodeId) IN
       IF Len(children) = 0
       THEN [map |-> MapSet(nodesMap, [MapGet(nodesMap, nodeId) EXCEPT
                                          !.subtreeHeight = Px(NODE_HEIGHT),
                                          !.subtreeWidth = Px(NODE_WIDTH)]),
             totalHeight |-> Px(NODE_HEIGHT), maxWidth |-> Px(NODE_WIDTH)]
       ELSE LET r == SubtreeDimensionsOfChildren(nodesMap, children, visibleNodes, 0, 0)
                subtreeHeight == Max(Px(NODE_HEIGHT), r.currentChildrenHeight - Px(VERTICAL_SPACING))
                subtreeWidth == Px(NODE_WIDTH) + Px(LEVEL_OFFSET) + r.maxChildWidth
            IN [map |-> MapSet(r.map, [MapGet(r.map, nodeId) EXCEPT
                                          !.subtreeHeight = subtreeHeight,
                                          !.subtreeWidth = subtreeWidth]),
                totalHeight |-> subtreeHeight, maxWidth |-> subtreeWidth]

\* children.forEach(child => { ... calculateSubtreeDimensions(child.id) ... })
SubtreeDimensionsOfChildren(nodesMap, children, visibleNodes, currentChildrenHeight, maxChildWidth) ==
  IF children = << >>
  THEN [map |-> nodesMap, currentChildrenHeight |-> currentChildrenHeight,
        maxChildWidth |-> maxChildWidth]
  ELSE LET childDims == calculateSubtreeDimensions(nodesMap, Head(children).id, visibleNodes)
       IN SubtreeDimensionsOfChildren(childDims.map, Tail(children), visibleNodes,
             currentChildrenHeight + childDims.totalHeight + Px(VERTICAL_SPACING),
             Max(maxChildWidth, childDims.maxWidth))

\* return currentYOffset + node.subtreeHeight + VERTICAL_SPACING: where the
\* next sibling's subtree starts
yAfterSubtree_NoSpacing(currentYOffset, subtreeHeight) == currentYOffset + subtreeHeight

yAfterSubtree(currentYOffset, subtreeHeight) ==
  currentYOffset + subtreeHeight + Px(VERTICAL_SPACING)

\* returns the map as written, with the returned y offset
RECURSIVE positionSubtree(_, _, _, _, _), PositionChildren(_, _, _, _, _)
positionSubtree(nodesMap, nodeId, currentX, currentYOffset, visibleNodes) ==
  IF ~MapHas(nodesMap, nodeId)
  THEN [map |-> nodesMap, ret |-> currentYOffset]
  ELSE LET children == ChildrenOf(visibleNodes, nodeId)
           m1 == MapSet(nodesMap, [MapGet(nodesMap, nodeId) EXCEPT !.x = currentX])
       IN IF Len(children) = 0
          THEN [map |-> MapSet(m1, [MapGet(m1, nodeId) EXCEPT
                                      !.y = currentYOffset + Half(Px(NODE_HEIGHT))]),
                ret |-> yAfterSubtree(currentYOffset, MapGet(m1, nodeId).subtreeHeight)]
          ELSE LET m2 == PositionChildren(m1, children, currentX + Px(LEVEL_OFFSET),
                                          currentYOffset, visibleNodes)
                   node == MapGet(m2, nodeId)
                   firstId == children[1].id
                   lastId == children[Len(children)].id
                   y == IF MapHas(m2, firstId) /\ MapHas(m2, lastId)
                        THEN Half(MapGet(m2, firstId).y + MapGet(m2, lastId).y)
                        ELSE currentYOffset + Half(node.subtreeHeight)
               IN [map |-> MapSet(m2, [node EXCEPT !.y = y]),
                   ret |-> yAfterSubtree(currentYOffset, node.subtreeHeight)]

\* children.forEach(child => { childCurrentY = positionSubtree(...) })
PositionChildren(nodesMap, children, childX, childCurrentY, visibleNodes) ==
  IF children = << >>
  THEN nodesMap
  ELSE LET p == positionSubtree(nodesMap, Head(children).id, childX, childCurrentY, visibleNodes)
       IN PositionChildren(p.map, Tail(children), childX, p.ret, visibleNodes)

\* lines 171-185: the bounding box is taken over visibleNodes, the nodes of
\* the argument list, and the offset is added to the nodes of the map
CenterHorizontally(nodesMap, visibleNodes, containerWidth) ==
  LET shown == { i \in DOMAIN visibleNodes : visibleNodes[i].x > Px(-1000) } IN
  IF shown = {}
  THEN nodesMap
  ELSE LET minX == SetMin({ visibleNodes[i].x - Half(Px(NODE_WIDTH)) : i \in shown })
           maxX == SetMax({ visibleNodes[i].x + Half(Px(NODE_WIDTH)) : i \in shown })
           layoutWidth == maxX - minX
           offsetX == Half(Px(containerWidth)) - Half(layoutWidth) - minX
       IN [i \in DOMAIN nodesMap |->
             IF nodesMap[i].x > Px(-1000)
             THEN [nodesMap[i] EXCEPT !.x = @ + offsetX]
             ELSE nodesMap[i]]

calculateLayout(flatNodes, containerWidth, containerHeight) ==
  IF Len(flatNodes) = 0
  THEN << >>
  ELSE LET nodesMap == MapFromEntries(<< >>, HiddenCopies(flatNodes))
           visibleNodes == SelectSeq(flatNodes, LAMBDA n : AncestorsExpanded(n, nodesMap))
           roots == SelectSeq(visibleNodes, LAMBDA n : n.parentId = "")
       IN IF roots = << >>
          THEN nodesMap
          ELSE LET rootNode == Head(roots)
                   dims == calculateSubtreeDimensions(nodesMap, rootNode.id, visibleNodes)
                   pos == positionSubtree(dims.map, rootNode.id, Half(Px(NODE_WIDTH)),
                             Half(Px(containerHeight)) - Half(rootNode.subtreeHeight),
                             visibleNodes)
               IN CenterHorizontally(pos.map, visibleNodes, containerWidth)

-----------------------------------------------------------------------------
(* FlowchartDiagram (src/components/FlowchartDiagram.tsx) *)

FC_NODE_WIDTH == 180
FC_NODE_HEIGHT == 90
FC_HORIZONTAL_SPACING == 100
FC_VERTICAL_SPACING == 40

FC_validChild(child) == child.word # "" /\ child.language # ""

RECURSIVE FC_flattenTree(_, _, _, _)
FC_flattenTree(tree, parentId, level, index) ==
  IF tree.word = "" \/ tree.language = ""
  THEN << >>
  ELSE LET id == NodeId(tree.word, tree.language, level, index)
           kept == SelectSeq([k \in 1..Len(tree.children) |-> k],
                             LAMBDA k : FC_validChild(tree.children[k]))
           childrenIds == [j \in 1..Len(kept) |->
                             NodeId(tree.children[kept[j]].word, tree.children[kept[j]].language,
                                    level + 1, kept[j] - 1)]
           childrenNodes == Flatten([j \in 1..Len(kept) |->
                               FC_flattenTree(tree.children[kept[j]], id, level + 1, kept[j] - 1)])
       IN << MindmapNode(id, tree, parentId, childrenIds, level, FC_NODE_WIDTH, FC_NODE_HEIGHT) >>
            \o childrenNodes

\* levels[lvl]: the nodes of one level, in list order
LevelNodes(flatNodes, lvl) == SelectSeq(flatNodes, LAMBDA n : n.level = lvl)

\* lvlNodes.forEach((node, idx) => { n.x = ...; n.y = ... })
RECURSIVE FC_PlaceLevel(_, _, _, _, _)
FC_PlaceLevel(nodesMap, lvlNodes, idx, lvl, startY) ==
  IF idx >= Len(lvlNodes)
  THEN nodesMap
  ELSE LET n == MapGet(nodesMap, lvlNodes[idx + 1].id)
           x == lvl * (Px(FC_NODE_WIDTH) + Px(FC_HORIZONTAL_SPACING)) + Half(Px(FC_NODE_WIDTH))
           y == startY + idx * (Px(FC_NODE_HEIGHT) + Px(FC_VERTICAL_SPACING))
                  + Half(Px(FC_NODE_HEIGHT))
       IN FC_PlaceLevel(MapSet(nodesMap, [n EXCEPT !.x = x, !.y = y]),
                        lvlNodes, idx + 1, lvl, startY)

\* Object.keys(levels).forEach(...): the levels in ascending order
RECURSIVE FC_PlaceLevels(_, _, _, _)
FC_PlaceLevels(nodesMap, flatNodes, lvls, containerHeight) ==
  IF lvls = {}
  THEN nodesMap
  ELSE LET lvl == SetMin(lvls)
           lvlNodes == LevelNodes(flatNodes, lvl)
           totalH == Len(lvlNodes) * Px(FC_NODE_HEIGHT)
                       + (Len(lvlNodes) - 1) * Px(FC_VERTICAL_SPACING)
           startY == Half(Px(containerHeight)) - Half(totalH)
       IN FC_PlaceLevels(FC_PlaceLevel(nodesMap, lvlNodes, 0, lvl, startY),
                         flatNodes, lvls \ {lvl}, containerHeight)

FC_calculateLayout(flatNodes, containerWidth, containerHeight) ==
  IF Len(flatNodes) = 0
  THEN << >>
  ELSE LET nodesMap == MapFromEntries(<< >>, HiddenCopies(flatNodes))
           lvls == { flatNodes[i].level : i \in DOMAIN flatNodes }
           placed == FC_PlaceLevels(nodesMap, flatNodes, lvls, containerHeight)
           minX == SetMin({ placed[i].x - Half(Px(FC_NODE_WIDTH)) : i \in DOMAIN placed })
           maxX == SetMax({ placed[i].x + Half(Px(FC_NODE_WIDTH)) : i \in DOMAIN placed })
           layoutW == maxX - minX
           offsetX == Half(Px(containerWidth)) - Half(layoutW) - minX
       IN [i \in DOMAIN placed |-> [placed[i] EXCEPT !.x = @ + offsetX]]

-----------------------------------------------------------------------------
(* RadialTree (src/components/RadialTree.tsx) and HierarchicalEdgeBundling    *)
(* (src/unnamed/part_005): both hand the tree to d3.hierarchy and d3.tree    *)

RADIAL_MARGIN == 100
BUNDLING_MARGIN == 80

Min(a, b) == IF a <= b THEN a ELSE b

RECURSIVE TreeHeight(_)
TreeHeight(tree) ==
  IF tree.children = << >> THEN 0
  ELSE 1 + SetMax({ TreeHeight(tree.children[k]) : k \in 1..Len(tree.children) })

RECURSIVE Preorder(_, _)
Preorder(tree, depth) ==
  << [word |-> tree.word, language |-> tree.language, depth |-> depth,
      data |-> [meaning |-> Get(tree, "meaning"), era |-> Get(tree, "era"),
                context |-> Get(tree, "context")]] >>
    \o Flatten([k \in 1..Len(tree.children) |-> Preorder(tree.children[k], depth + 1)])

\* d3.hierarchy(data).descendants(): every node of the tree (no validity
\* filter), breadth-first
descendants(tree) ==
  Flatten([lvl \in 1..(TreeHeight(tree) + 1) |->
             SelectSeq(Preorder(tree, 0), LAMBDA n : n.depth = lvl - 1)])

\* d3.tree().size([2 * Math.PI, dy]): node.y = node.depth * (dy / (bottom.depth || 1)),
\* kept as the fraction num / den (the angle node.x is not modelled)
treeLayout(tree, dy) ==
  LET ns == descendants(tree)
      bottomDepth == TreeHeight(tree)
  IN [i \in DOMAIN ns |->
        [word |-> ns[i].word, language |-> ns[i].language, depth |-> ns[i].depth,
         data |-> ns[i].data,
         y |-> [num |-> ns[i].depth * dy,
                den |-> IF bottomDepth = 0 THEN 1 ELSE bottomDepth]]]

\* RadialTree: const radius = Math.min(dimensions.width, dimensions.height) / 2 - 100
RadialTree_radius(dimensions) ==
  Half(Px(Min(dimensions.width, dimensions.height))) - Px(RADIAL_MARGIN)

\* HierarchicalEdgeBundling: actualSize and radius
HEB_actualSize(width, height) == Max(100, Min(width, height))
HEB_radius(actualSize) == Half(Px(actualSize)) - Px(BUNDLING_MARGIN)

-----------------------------------------------------------------------------
(* The mounted view and its effects *)

\* App: nothing is being exported, the window is not full-screen; no
\* simulation has been created
InitOther ==
  /\ exportTrigger = Null
  /\ isExportingRef = FALSE
  /\ exports = << >>
  /\ resetTimers = 0
  /\ files = { }
  /\ nClicks = 0
  /\ nStarted = 0
  /\ isFullScreen = FALSE
  /\ simulations = << >>
  /\ lastTick = Null
  /\ nodesRef = 0

\* useState initial values of TreeDiagram / FlowchartDiagram
Mounted ==
  /\ nodes = << >>
  /\ svgDimensions = [width |-> 0, height |-> 0]
  /\ transformState = [scale |-> ScaleOf(1, 1), translateX |-> 0, translateY |-> 0]
  /\ initialTransformSet = FALSE
  /\ dataEffectRan = FALSE
  /\ effectDeps = << >>
  /\ listener = Null
  /\ lastLayout = Null
  /\ drawDeps = Null
  /\ isPanning = FALSE
  /\ startPanPoint = [x |-> 0, y |-> 0]
  /\ drag = Null
  /\ lastMouse = Null
  /\ nDrags = 0

\* the layout effect's dependencies that change:
\*   TreeDiagram      [nodes.length, isFullScreen, initialTransformSet, calculateLayout]
\*   FlowchartDiagram [nodes.length, calculateLayout, isFullScreen]
\*   RadialTree      [isFullScreen]
\*   HierarchicalEdgeBundling [data, isFullScreen]
TreeDeps == <<"deps", Len(nodes), initialTransformSet>>
FlowDeps == <<"deps", Len(nodes)>>
RadialDeps == <<"deps">>
BundlingDeps == <<"deps">>

\* ForceDirectedGraph's data effect: a link for every node whose parent is in the list
ForceLinks(flatNodes) ==
  LET linked == SelectSeq(flatNodes, LAMBDA n : n.parentId # "" /\ MapHas(flatNodes, n.parentId))
  IN [i \in DOMAIN linked |-> [source |-> linked[i].parentId, target |-> linked[i].id]]

\*   ForceDirectedGraph [nodes.length, links.length, isFullScreen]
\*   ChronologicalLine  [isFullScreen, calculateLayout, nodes.length] (resize effect);
\*                      [nodes, isFullScreen] (dimensions effect, see drawDeps)
ForceDeps == <<"deps", Len(nodes), Len(ForceLinks(nodes)), isFullScreen>>

ChronoDeps_Nodes == <<"deps", nodesRef, isFullScreen>>

ChronoDeps == <<"deps", Len(nodes), isFullScreen>>

\* no effect of the mounted view is left to run
EffectsIdle ==
  CASE visualizationMode = "tree" -> dataEffectRan /\ effectDeps = TreeDeps
    [] visualizationMode = "flowchart" -> dataEffectRan /\ effectDeps = FlowDeps
    [] visualizationMode = "radial" -> effectDeps = RadialDeps /\ drawDeps = svgDimensions
    [] visualizationMode = "list" -> TRUE
    [] visualizationMode = "force" -> dataEffectRan /\ effectDeps = ForceDeps
    [] visualizationMode = "chronological" ->
         dataEffectRan /\ effectDeps = ChronoDeps
           /\ drawDeps = [nodesRef |-> nodesRef, isFullScreen |-> isFullScreen]
    [] OTHER -> effectDeps = BundlingDeps

Fresh(ns) == \A i \in DOMAIN ns : ns[i].x = 0 /\ ns[i].y = 0 /\ ns[i].subtreeHeight = 0

\* TreeDiagram.handleResize, run with the nodes and the initialTransformSet of
\* the render that created it, and with the container's rectangle
handleResize(closureNodes, closureInitialTransformSet, rect) ==
  LET width == rect[1]
      height == rect[2]
      actualHeight == Max(height, 600)
  IN /\ svgDimensions' = [width |-> Max(width, 100), height |-> actualHeight]
     /\ IF Len(closureNodes) > 0
        THEN /\ nodes' = calculateLayout(closureNodes, width, actualHeight)
             /\ lastLayout' = [width |-> width, height |-> actualHeight,
                               fresh |-> Fresh(closureNodes)]
             /\ IF ~closureInitialTransformSet
                THEN /\ initialTransformSet' = TRUE
                     /\ transformState' = [scale |-> ScaleOf(8, 10), translateX |-> 100,
                                           translateY |-> 0]
                ELSE UNCHANGED <<initialTransformSet, transformState>>
        ELSE UNCHANGED <<nodes, lastLayout, initialTransformSet, transformState>>

\* TreeDiagram: useEffect on [data]
TreeDiagram_dataEffect ==
  /\ visualizationMode = "tree" /\ etymologyData # Null
  /\ ~dataEffectRan /\ effectDeps = TreeDeps
  /\ nodes' = flattenTree(etymologyData, "", 0, 0)
  /\ initialTransformSet' = FALSE
  /\ dataEffectRan' = TRUE
  /\ UNCHANGED <<visualizationMode, container, svgDimensions, transformState, effectDeps,
                 listener, lastLayout>>
  /\ UNCHANGED <<drawDeps, searchTerm, panVars>>
  /\ UNCHANGED appVars
  /\ UNCHANGED otherVars

\* TreeDiagram: useLayoutEffect: addEventListener('resize', handleResize); handleResize()
TreeDiagram_layoutEffect ==
  /\ visualizationMode = "tree" /\ etymologyData # Null
  /\ effectDeps # TreeDeps
  /\ handleResize(nodes, initialTransformSet, container)
  /\ listener' = [nodes |-> nodes, initialTransformSet |-> initialTransformSet]
  /\ effectDeps' = TreeDeps
  /\ UNCHANGED <<visualizationMode, container, dataEffectRan>>
  /\ UNCHANGED <<drawDeps, searchTerm, panVars>>
  /\ UNCHANGED appVars
  /\ UNCHANGED otherVars

\* a window 'resize' event while TreeDiagram is mounted: the registered handleResize
TreeDiagram_onResize(rect) ==
  /\ visualizationMode = "tree" /\ etymologyData # Null
  /\ EffectsIdle /\ listener # Null
  /\ container' = rect
  /\ handleResize(listener.nodes, listener.initialTransformSet, rect)
  /\ UNCHANGED <<visualizationMode, dataEffectRan, effectDeps, listener>>
  /\ UNCHANGED <<drawDeps, searchTerm, panVars>>
  /\ UNCHANGED appVars
  /\ UNCHANGED otherVars

\* FlowchartDiagram: useEffect on [data]
Flowchart_dataEffect ==
  /\ visualizationMode = "flowchart" /\ etymologyData # Null
  /\ ~dataEffectRan /\ effectDeps = FlowDeps
  /\ nodes' = FC_flattenTree(etymologyData, "", 0, 0)
  /\ initialTransformSet' = FALSE
  /\ dataEffectRan' = TRUE
  /\ UNCHANGED <<visualizationMode, container, svgDimensions, transformState, effectDeps,
                 listener, lastLayout>>
  /\ UNCHANGED <<drawDeps, searchTerm, panVars>>
  /\ UNCHANGED appVars
  /\ UNCHANGED otherVars

\* FlowchartDiagram: useLayoutEffect
Flowchart_layoutEffect ==
  /\ visualizationMode = "flowchart" /\ etymologyData # Null
  /\ effectDeps # FlowDeps
  /\ LET width == container[1]
         actualHeight == container[2]
         updated == FC_calculateLayout(nodes, width, actualHeight)
     IN /\ svgDimensions' = [width |-> width, height |-> actualHeight]
        /\ IF Len(nodes) > 0
           THEN /\ nodes' = updated
                /\ lastLayout' = [width |-> width, height |-> actualHeight,
                                  fresh |-> Fresh(nodes)]
                /\ IF ~initialTransformSet /\ Len(updated) > 0
                   THEN /\ initialTransformSet' = TRUE
                        /\ transformState' = [scale |-> ScaleOf(9, 10), translateX |-> 50,
                                              translateY |-> 0]
                   ELSE UNCHANGED <<initialTransformSet, transformState>>
           ELSE UNCHANGED <<nodes, lastLayout, initialTransformSet, transformState>>
  /\ effectDeps' = FlowDeps
  /\ UNCHANGED <<visualizationMode, container, dataEffectRan, listener>>
  /\ UNCHANGED <<drawDeps, searchTerm, panVars>>
  /\ UNCHANGED appVars
  /\ UNCHANGED otherVars

\* the container changes size while FlowchartDiagram is mounted: it has no
\* resize listener, and none of its effect's dependencies changes
Flowchart_containerResized(rect) ==
  /\ visualizationMode = "flowchart" /\ etymologyData # Null
  /\ EffectsIdle
  /\ container' = rect
  /\ UNCHANGED <<visualizationMode, nodes, svgDimensions, transformState,
                 initialTransformSet, dataEffectRan, effectDeps, listener, lastLayout>>
  /\ UNCHANGED <<drawDeps, searchTerm, panVars>>
  /\ UNCHANGED appVars
  /\ UNCHANGED otherVars

\* RadialTree: useLayoutEffect on [isFullScreen]: measures the container
\* (svgDimensions holds RadialTree's `dimensions`)
Radial_layoutEffect ==
  /\ visualizationMode = "radial" /\ etymologyData # Null
  /\ effectDeps # RadialDeps
  /\ svgDimensions' = [width |-> container[1], height |-> container[2]]
  /\ effectDeps' = RadialDeps
  /\ UNCHANGED <<visualizationMode, container, nodes, transformState, initialTransformSet,
                 dataEffectRan, listener, lastLayout, drawDeps, searchTerm, panVars>>
  /\ UNCHANGED appVars
  /\ UNCHANGED otherVars

\* RadialTree: useEffect on [data, dimensions, ...]: draws the tree
\* (nodes holds the data bound to the svg, root.descendants())
Radial_drawEffect ==
  /\ visualizationMode = "radial" /\ etymologyData # Null
  /\ drawDeps # svgDimensions
  /\ IF svgDimensions.width = 0
     THEN UNCHANGED <<nodes, lastLayout>>
     ELSE /\ nodes' = treeLayout(etymologyData, RadialTree_radius(svgDimensions))
          /\ lastLayout' = [width |-> svgDimensions.width, height |-> svgDimensions.height,
                            fresh |-> TRUE]
  /\ drawDeps' = svgDimensions
  /\ UNCHANGED <<visualizationMode, container, svgDimensions, transformState,
                 initialTransformSet, dataEffectRan, effectDeps, listener, searchTerm, panVars>>
  /\ UNCHANGED appVars
  /\ UNCHANGED otherVars

\* HierarchicalEdgeBundling renders its container only once it has nodes:
\* if (!data || nodes.length === 0 || svgDimensions.width === 0) return null
HEB_containerRendered == nodes # << >> /\ svgDimensions.width # 0

\* HierarchicalEdgeBundling: useLayoutEffect on [data, isFullScreen]
HEB_layoutEffect ==
  /\ visualizationMode = "edgeBundling" /\ etymologyData # Null
  /\ effectDeps # BundlingDeps
  /\ IF HEB_containerRendered
     THEN LET actualSize == HEB_actualSize(container[1], container[2])
          IN /\ svgDimensions' = [width |-> actualSize, height |-> actualSize]
             /\ nodes' = treeLayout(etymologyData, Max(Px(1), HEB_radius(actualSize)))
             /\ lastLayout' = [width |-> actualSize, height |-> actualSize, fresh |-> TRUE]
     ELSE UNCHANGED <<nodes, svgDimensions, lastLayout>>
  /\ effectDeps' = BundlingDeps
  /\ UNCHANGED <<visualizationMode, container, transformState, initialTransformSet,
                 dataEffectRan, listener, drawDeps, searchTerm, panVars>>
  /\ UNCHANGED appVars
  /\ UNCHANGED otherVars

\* the container changes size while RadialTree or HierarchicalEdgeBundling is
\* mounted: neither has a resize listener nor an effect that depends on the size
D3View_containerResized(rect) ==
  /\ visualizationMode \in {"radial", "edgeBundling"} /\ etymologyData # Null
  /\ EffectsIdle
  /\ container' = rect
  /\ UNCHANGED <<visualizationMode, nodes, svgDimensions, transformState,
                 initialTransformSet, dataEffectRan, effectDeps, listener, lastLayout,
                 drawDeps, searchTerm, panVars>>
  /\ UNCHANGED appVars
  /\ UNCHANGED otherVars

\* App: onClick={() => setVisualizationMode(viz.id)}: the other view mounts
SetVisualizationMode(mode) ==
  /\ etymologyData # Null
  /\ EffectsIdle
  /\ visualizationMode # mode
  /\ visualizationMode' = mode
  /\ ViewUnmounted
  /\ UNCHANGED <<container, searchTerm, nDrags, exportVars, isFullScreen, lastTick>>
  /\ UNCHANGED appVars

-----------------------------------------------------------------------------
(* Interaction: the 'Find root' box of App, and the wheel and the mouse on    *)
(* the svg of TreeDiagram and FlowchartDiagram                               *)

MaxDrags == 2        \* mouse-downs in one behaviour

SearchTerms == {"", "a", "A"}

\* (clientX, clientY) of a mouse event
Pointers == { <<10, 20>>, <<40, 60>> }

\* e.deltaY of a wheel event
WheelDeltas == {-100, 0, 100}

\* App: onChange={e => setSearchTerm(e.target.value)}; the views take the
\* prop and none of their effects depends on it
SetSearchTerm(t) ==
  /\ etymologyData # Null
  /\ searchTerm # t
  /\ searchTerm' = t
  /\ UNCHANGED <<visualizationMode, container, nodes, svgDimensions, transformState,
                 initialTransformSet, dataEffectRan, effectDeps, listener, lastLayout,
                 drawDeps, panVars>>
  /\ UNCHANGED appVars
  /\ UNCHANGED otherVars

\* the latest event of the svg: its type, its (clientX, clientY), its deltaY,
\* and a bit that flips with every event
SvgEvent(type, p, deltaY) ==
  [type |-> type, p |-> p, deltaY |-> deltaY,
   n |-> IF lastMouse = Null THEN 0 ELSE 1 - lastMouse.n]

\* v * 1.1^k and v / 1.1^k in millionths, rounded down at each step
RECURSIVE TimesPow(_, _), DivPow(_, _)
TimesPow(v, k) == IF k = 0 THEN v ELSE TimesPow((v * 11) \div 10, k - 1)
DivPow(v, k) == IF k = 0 THEN v ELSE DivPow((v * 10) \div 11, k - 1)

\* the value of a scale in millionths; only the comparisons with 0.1 and 5
\* read it, and no reachable scale is within a thousandth of either bound
\* without being equal to it
ScaleMicro(scale) ==
  LET base == (scale.num * 1000000) \div scale.den
  IN IF scale.e >= 0 THEN TimesPow(base, scale.e) ELSE DivPow(base, 0 - scale.e)

\* Math.max(0.1, Math.min(5, newScale))
clampScale_NoUpper(newScale) ==
  IF ScaleMicro(newScale) < 100000 THEN ScaleOf(1, 10) ELSE newScale

clampScale(newScale) ==
  IF ScaleMicro(newScale) > 5000000 THEN ScaleOf(5, 1)
  ELSE IF ScaleMicro(newScale) < 100000 THEN ScaleOf(1, 10)
  ELSE newScale

\* FlowchartDiagram.handleWheel (TreeDiagram has no wheel handler)
handleWheel(deltaY) ==
  /\ visualizationMode = "flowchart" /\ etymologyData # Null
  /\ EffectsIdle
  /\ LET scaleFactor == 1
         newScale == IF deltaY < 0
                     THEN [transformState.scale EXCEPT !.e = @ + scaleFactor]
                     ELSE [transformState.scale EXCEPT !.e = @ - scaleFactor]
     IN transformState' = [transformState EXCEPT !.scale = clampScale(newScale)]
  /\ lastMouse' = SvgEvent("wheel", <<0, 0>>, deltaY)
  /\ UNCHANGED <<visualizationMode, container, nodes, svgDimensions,
                 initialTransformSet, dataEffectRan, effectDeps, listener, lastLayout,
                 drawDeps, searchTerm, isPanning, startPanPoint, drag, nDrags>>
  /\ UNCHANGED appVars
  /\ UNCHANGED otherVars

\* setStartPanPoint({ x: e.clientX - transformState.translateX,
\*                    y: e.clientY - transformState.translateY })
panStart_NoOffset(p, transform) == [x |-> p[1], y |-> p[2]]

panStart(p, transform) ==
  [x |-> p[1] - transform.translateX, y |-> p[2] - transform.translateY]

\* onMouseDown of the svg (both views)
handleMouseDown(p) ==
  /\ visualizationMode \in {"tree", "flowchart"} /\ etymologyData # Null
  /\ EffectsIdle
  /\ nDrags < MaxDrags
  /\ isPanning' = TRUE
  /\ startPanPoint' = panStart(p, transformState)
  /\ drag' = [p0 |-> p, t0 |-> <<transformState.translateX, transformState.translateY>>]
  /\ lastMouse' = SvgEvent("down", p, 0)
  /\ nDrags' = nDrags + 1
  /\ UNCHANGED <<visualizationMode, container, nodes, svgDimensions, transformState,
                 initialTransformSet, dataEffectRan, effectDeps, listener, lastLayout,
                 drawDeps, searchTerm>>
  /\ UNCHANGED appVars
  /\ UNCHANGED otherVars

\* onMouseMove of the svg (both views)
handleMouseMove(p) ==
  /\ visualizationMode \in {"tree", "flowchart"} /\ etymologyData # Null
  /\ EffectsIdle
  /\ IF isPanning
     THEN transformState' = [transformState EXCEPT !.translateX = p[1] - startPanPoint.x,
                                                   !.translateY = p[2] - startPanPoint.y]
     ELSE UNCHANGED transformState
  /\ lastMouse' = SvgEvent("move", p, 0)
  /\ UNCHANGED <<visualizationMode, container, nodes, svgDimensions,
                 initialTransformSet, dataEffectRan, effectDeps, listener, lastLayout,
                 drawDeps, searchTerm, isPanning, startPanPoint, drag, nDrags>>
  /\ UNCHANGED appVars
  /\ UNCHANGED otherVars

\* onMouseUp={() => setIsPanning(false)}
onMouseUp ==
  /\ visualizationMode \in {"tree", "flowchart"} /\ etymologyData # Null
  /\ EffectsIdle
  /\ isPanning' = FALSE
  /\ lastMouse' = SvgEvent("up", <<0, 0>>, 0)
  /\ UNCHANGED <<visualizationMode, container, nodes, svgDimensions, transformState,
                 initialTransformSet, dataEffectRan, effectDeps, listener, lastLayout,
                 drawDeps, searchTerm, startPanPoint, drag, nDrags>>
  /\ UNCHANGED appVars
  /\ UNCHANGED otherVars

\* onMouseLeave={() => { setIsPanning(false); onNodeLeave(); }}
onMouseLeave ==
  /\ visualizationMode \in {"tree", "flowchart"} /\ etymologyData # Null
  /\ EffectsIdle
  /\ isPanning' = FALSE
  /\ tooltip' = Null
  /\ lastMouse' = SvgEvent("leave", <<0, 0>>, 0)
  /\ UNCHANGED <<visualizationMode, container, nodes, svgDimensions, transformState,
                 initialTransformSet, dataEffectRan, effectDeps, listener, lastLayout,
                 drawDeps, searchTerm, startPanPoint, drag, nDrags>>
  /\ UNCHANGED <<activePage, etymologyData, isLoading, loadingProgress, error,
                 currentSearchWord, showConfetti, inputWord, calls, confettiTimers,
                 nAccepted, nIssued, lastIssued>>
  /\ UNCHANGED otherVars

-----------------------------------------------------------------------------
(* Hover: the nodes of FlowchartDiagram and RadialTree report the pointer to  *)
(* App's setTooltip; the nodes of TreeDiagram have no mouseenter handler      *)

\* fetched trees whose nodes have, or lack, the optional fields
HoverTrees ==
  { [word |-> "a", language |-> "L", meaning |-> "m", era |-> "e", context |-> "c",
     children |-> << >>],
    [word |-> "a", language |-> "L",
     children |-> << [word |-> "b", language |-> "L", meaning |-> "m",
                      children |-> << >>] >>],
    [word |-> "a", language |-> "L", meaning |-> "m",
     children |-> << [word |-> "b", language |-> "L", meaning |-> "n", era |-> "e",
                      children |-> << >>] >>] }

\* the pointer enters node i at p
EnterEvent(i, p) ==
  [type |-> "enter", p |-> p, deltaY |-> 0,
   n |-> IF lastMouse = Null THEN 0 ELSE 1 - lastMouse.n, node |-> i]

\* FlowchartDiagram:
\* onMouseEnter={(e) => onNodeHover({ x: e.clientX, y: e.clientY, content: node })}
Flowchart_onMouseEnter(i, p) ==
  /\ visualizationMode = "flowchart" /\ etymologyData # Null
  /\ EffectsIdle
  /\ i \in DOMAIN nodes
  /\ tooltip' = [x |-> p[1], y |-> p[2], content |-> nodes[i]]
  /\ lastMouse' = EnterEvent(i, p)
  /\ UNCHANGED <<visualizationMode, container, nodes, svgDimensions, transformState,
                 initialTransformSet, dataEffectRan, effectDeps, listener, lastLayout,
                 drawDeps, searchTerm, isPanning, startPanPoint, drag, nDrags>>
  /\ UNCHANGED <<activePage, etymologyData, isLoading, loadingProgress, error,
                 currentSearchWord, showConfetti, inputWord, calls, confettiTimers,
                 nAccepted, nIssued, lastIssued>>
  /\ UNCHANGED otherVars

\* RadialTree: .on('mouseenter', (event, d) => onNodeHover({ x, y,
\*   content: { word: d.data.word, language: d.data.language, meaning: d.data.meaning } }))
Radial_mouseenter(i, p) ==
  /\ visualizationMode = "radial" /\ etymologyData # Null
  /\ EffectsIdle
  /\ i \in DOMAIN nodes
  /\ tooltip' = [x |-> p[1], y |-> p[2],
                 content |-> [word |-> nodes[i].word, language |-> nodes[i].language,
                              meaning |-> nodes[i].data.meaning]]
  /\ lastMouse' = EnterEvent(i, p)
  /\ UNCHANGED <<visualizationMode, container, nodes, svgDimensions, transformState,
                 initialTransformSet, dataEffectRan, effectDeps, listener, lastLayout,
                 drawDeps, searchTerm, isPanning, startPanPoint, drag, nDrags>>
  /\ UNCHANGED <<activePage, etymologyData, isLoading, loadingProgress, error,
                 currentSearchWord, showConfetti, inputWord, calls, confettiTimers,
                 nAccepted, nIssued, lastIssued>>
  /\ UNCHANGED otherVars

\* the node's onMouseLeave={onNodeLeave} / .on('mouseleave', onNodeLeave):
\* App's () => setTooltip(null)
Node_onMouseLeave ==
  /\ visualizationMode \in {"flowchart", "radial"} /\ etymologyData # Null
  /\ EffectsIdle
  /\ lastMouse # Null /\ lastMouse.type = "enter"
  /\ tooltip' = Null
  /\ lastMouse' = SvgEvent("leaveNode", <<0, 0>>, 0)
  /\ UNCHANGED <<visualizationMode, container, nodes, svgDimensions, transformState,
                 initialTransformSet, dataEffectRan, effectDeps, listener, lastLayout,
                 drawDeps, searchTerm, isPanning, startPanPoint, drag, nDrags>>
  /\ UNCHANGED <<activePage, etymologyData, isLoading, loadingProgress, error,
                 currentSearchWord, showConfetti, inputWord, calls, confettiTimers,
                 nAccepted, nIssued, lastIssued>>
  /\ UNCHANGED otherVars

-----------------------------------------------------------------------------
(* Export: App.handleContentExport, the export effect of the mounted view,   *)
(* exportSvgAs and exportHtmlAs (src/utils/exportUtils.ts)                   *)

MaxClicks == 2       \* clicks on an export format in one behaviour

ExportFormats == {"png", "jpeg", "pdf", "svg"}

\* const fileName = `etymos_${currentSearchWord || 'roots'}_${visualizationMode}`
exportFileName(word, mode) ==
  "etymos_" \o (IF word = "" THEN "roots" ELSE word) \o "_" \o mode

\* exportSvgAs: downloadFile(dataUrl, fileName, 'svg'), pdf.save(`${fileName}.pdf`),
\* const extension = format === 'pdf' ? 'pdf' : format
exportSvgAs_extension(format) ==
  IF format = "svg" THEN "svg" ELSE IF format = "pdf" THEN "pdf" ELSE format

\* exportHtmlAs:
\* const extension = format === 'pdf' ? 'pdf' : (format === 'svg' ? 'png' : format)
exportHtmlAs_extension(format) ==
  IF format = "pdf" THEN "pdf" ELSE IF format = "svg" THEN "png" ELSE format

\* downloadFile: a.download = `${fileName}.${extension}`
downloadName(fileName, extension) == fileName \o "." \o extension

\* the view is mounted and the ref its export effect hands over is set:
\* svgRef.current, or ListView's containerRef.current
ContentReady ==
  /\ etymologyData # Null /\ ~isLoading
  /\ visualizationMode = "edgeBundling" => HEB_containerRendered

\* if (!content || !exportTrigger || isExportingRef.current) return
exportGuard_NoRef(content, trigger, exporting) == content /\ trigger # Null

exportGuard(content, trigger, exporting) == content /\ trigger # Null /\ ~exporting

\* the export effect of the mounted view in a render whose exportTrigger is
\* `trigger`, and handleContentExport up to its await
exportEffect(trigger) ==
  IF exportGuard(ContentReady, trigger, isExportingRef)
  THEN /\ isExportingRef' = TRUE
       /\ exportTrigger' = Null
       /\ exports' = Append(exports,
                            [isSvg |-> visualizationMode # "list",
                             format |-> trigger.format,
                             word |-> currentSearchWord,
                             mode |-> visualizationMode,
                             fileName |-> exportFileName(currentSearchWord, visualizationMode)])
       /\ nStarted' = nStarted + 1
  ELSE /\ exportTrigger' = trigger
       /\ UNCHANGED <<isExportingRef, exports, nStarted>>

\* a format button of the export menu:
\* setExportTrigger({ format: f, timestamp: Date.now() }); the view re-renders
\* and its export effect runs
ClickExportFormat(f) ==
  /\ etymologyData # Null
  /\ nClicks < MaxClicks
  /\ nClicks' = nClicks + 1
  /\ exportEffect([format |-> f, timestamp |-> nClicks + 1])
  /\ UNCHANGED <<resetTimers, files, forceVars>>
  /\ UNCHANGED appVars
  /\ UNCHANGED viewVars

\* App re-renders for any other reason, or the view mounts: the callback
\* c => handleContentExport(c, ...) is a new function, so the view's effect
\* on [exportTrigger, onContentReadyForExport] runs again
View_exportEffect ==
  /\ exportTrigger # Null
  /\ exportGuard(ContentReady, exportTrigger, isExportingRef)
  /\ exportEffect(exportTrigger)
  /\ UNCHANGED <<resetTimers, files, nClicks, forceVars>>
  /\ UNCHANGED appVars
  /\ UNCHANGED viewVars

\* exportSvgAs / exportHtmlAs returns (ok: a file was written; ~ok: it threw
\* or caught an error), and handleContentExport's finally arms the timer
ExportReturns(i, ok) ==
  /\ i \in DOMAIN exports
  /\ LET e == exports[i]
         extension == IF e.isSvg THEN exportSvgAs_extension(e.format)
                                 ELSE exportHtmlAs_extension(e.format)
     IN files' = IF ok THEN files \cup { [name |-> downloadName(e.fileName, extension),
                                            format |-> e.format, word |-> e.word,
                                            mode |-> e.mode] }
                       ELSE files
  /\ exports' = SelectSeq([k \in DOMAIN exports |-> IF k = i THEN Null ELSE exports[k]],
                          LAMBDA e : e # Null)
  /\ resetTimers' = resetTimers + 1
  /\ UNCHANGED <<exportTrigger, isExportingRef, nClicks, nStarted, forceVars>>
  /\ UNCHANGED appVars
  /\ UNCHANGED viewVars

\* setTimeout(() => { isExportingRef.current = false; }, 500)
ExportResetTimeout ==
  /\ resetTimers > 0
  /\ resetTimers' = resetTimers - 1
  /\ isExportingRef' = FALSE
  /\ UNCHANGED <<exportTrigger, exports, files, nClicks, nStarted, forceVars>>
  /\ UNCHANGED appVars
  /\ UNCHANGED viewVars

-----------------------------------------------------------------------------
(* ForceDirectedGraph (src/components/ForceDirectedGraph.tsx): the d3 force  *)
(* simulation is a timer that calls tick until it is stopped or has cooled;  *)
(* the positions d3 computes are not modelled, only which simulation writes  *)

NODE_RADIUS_BASE == 15
MaxTicks == 2        \* ticks of one simulation

\* window.innerWidth, window.innerHeight
WindowSize == <<1280, 720>>

\* typeof tree.word === 'string' && typeof tree.language === 'string'
typeofString(tree) == Get(tree, "word") # Undefined /\ Get(tree, "language") # Undefined

\* flattenTree of ForceDirectedGraph (w = h = NODE_RADIUS_BASE) and, with the
\* same text, of ChronologicalLine (w = NODE_WIDTH, h = NODE_HEIGHT)
RECURSIVE FG_flattenTree(_, _, _, _, _, _)
FG_flattenTree(tree, parentId, level, index, w, h) ==
  IF ~typeofString(tree)
  THEN << >>
  ELSE LET id == NodeId(tree.word, tree.language, level, index)
           kept == SelectSeq([k \in 1..Len(tree.children) |-> k],
                             LAMBDA k : typeofString(tree.children[k]))
           childrenIds == [j \in 1..Len(kept) |->
                             NodeId(tree.children[kept[j]].word, tree.children[kept[j]].language,
                                    level + 1, kept[j] - 1)]
           childrenNodes == Flatten([j \in 1..Len(kept) |->
                               FG_flattenTree(tree.children[kept[j]], id, level + 1,
                                              kept[j] - 1, w, h)])
       IN << MindmapNode(id, tree, parentId, childrenIds, level, w, h) >> \o childrenNodes

\* the view of visualizationMode is rendered: App shows the spinner while loading
ViewMounted(mode) == visualizationMode = mode /\ etymologyData # Null /\ ~isLoading

\* ForceDirectedGraph: useEffect on [data, flattenTree]: setNodes, setLinks
Force_dataEffect ==
  /\ ViewMounted("force")
  /\ ~dataEffectRan /\ effectDeps = ForceDeps
  /\ nodes' = FG_flattenTree(etymologyData, "", 0, 0, NODE_RADIUS_BASE, NODE_RADIUS_BASE)
  /\ nodesRef' = 1 - nodesRef
  /\ dataEffectRan' = TRUE
  /\ UNCHANGED <<visualizationMode, container, svgDimensions, transformState,
                 initialTransformSet, effectDeps, listener, lastLayout>>
  /\ UNCHANGED <<drawDeps, searchTerm, panVars>>
  /\ UNCHANGED <<exportVars, isFullScreen, simulations, lastTick>>
  /\ UNCHANGED appVars

\* ForceDirectedGraph: useLayoutEffect on [nodes.length, links.length,
\* isFullScreen]: the cleanup of its previous run, then a new simulation
Force_layoutEffect ==
  /\ ViewMounted("force")
  /\ effectDeps # ForceDeps
  /\ LET live == SelectSeq(stopOnCleanup(simulations), LAMBDA sim : sim.running) IN
     IF Len(nodes) = 0
     THEN /\ simulations' = live
          /\ UNCHANGED svgDimensions
     ELSE /\ svgDimensions' = [width |-> container[1],
                               height |-> IF isFullScreen THEN WindowSize[2] ELSE container[2]]
          /\ simulations' = Append(live, [running |-> TRUE, ticks |-> 0, inputs |-> ForceDeps])
  /\ effectDeps' = ForceDeps
  /\ UNCHANGED <<visualizationMode, container, nodes, transformState, initialTransformSet,
                 dataEffectRan, listener, lastLayout>>
  /\ UNCHANGED <<drawDeps, searchTerm, panVars>>
  /\ UNCHANGED <<exportVars, isFullScreen, lastTick, nodesRef>>
  /\ UNCHANGED appVars

\* the timer of simulation k fires: tick = () => setNodes([...simulation.nodes()])
Force_tick(k) ==
  /\ k \in DOMAIN simulations
  /\ simulations[k].running /\ simulations[k].ticks < MaxTicks
  /\ EffectsIdle
  /\ simulations' = [simulations EXCEPT ![k].ticks = @ + 1]
  /\ lastTick' = [inputs |-> simulations[k].inputs, n |-> simulations[k].ticks + 1,
                  current |-> k = Len(simulations), mounted |-> ViewMounted("force")]
  /\ nodesRef' = IF ViewMounted("force") THEN 1 - nodesRef ELSE nodesRef
  /\ UNCHANGED <<visualizationMode, container, nodes, svgDimensions, transformState,
                 initialTransformSet, dataEffectRan, effectDeps, listener, lastLayout>>
  /\ UNCHANGED <<drawDeps, searchTerm, panVars>>
  /\ UNCHANGED <<exportVars, isFullScreen>>
  /\ UNCHANGED appVars

\* the full-screen button: onClick={() => setIsFullScreen(!isFullScreen)}
ToggleFullScreen ==
  /\ etymologyData # Null /\ EffectsIdle
  /\ isFullScreen' = ~isFullScreen
  /\ UNCHANGED <<exportVars, simulations, lastTick, nodesRef>>
  /\ UNCHANGED viewVars
  /\ UNCHANGED appVars

-----------------------------------------------------------------------------
(* ChronologicalLine (src/components/ChronologicalLine.tsx); its coordinates *)
(* and its svgDimensions are scaled numbers (Px); the staggered entrance     *)
(* animation (animatedNodes) changes no list and no size and is left out     *)

CL_NODE_WIDTH == 200
CL_NODE_HEIGHT == 80
CL_HORIZONTAL_SPACING == 220
VERTICAL_STACK_SPACING == 40
TIMELINE_CENTER_Y_OFFSET == 0

\* a.localeCompare(b) for ids made of letters, digits and '-': punctuation
\* sorts before digits, digits before letters, letters without regard to case;
\* negative, zero or positive
RECURSIVE localeCompare(_, _)
localeCompare(a, b) ==
  LET lower == "-0123456789abcdefghijklmnopqrstuvwxyz"
      upper == "-0123456789ABCDEFGHIJKLMNOPQRSTUVWXYZ"
      rank(c) == CHOOSE i \in 1..Len(lower) :
                   SubSeq(lower, i, i) = c \/ SubSeq(upper, i, i) = c
  IN IF a = "" /\ b = "" THEN 0
     ELSE IF a = "" THEN -1
     ELSE IF b = "" THEN 1
     ELSE IF rank(SubSeq(a, 1, 1)) # rank(SubSeq(b, 1, 1))
          THEN rank(SubSeq(a, 1, 1)) - rank(SubSeq(b, 1, 1))
     ELSE localeCompare(SubSeq(a, 2, Len(a)), SubSeq(b, 2, Len(b)))

\* nodesAtLevel.sort((a, b) => a.id.localeCompare(b.id)): a stable sort
RECURSIVE sortById(_)
sortById(ns) ==
  IF ns = << >> THEN << >>
  ELSE LET rest == sortById(SubSeq(ns, 1, Len(ns) - 1))
           last == ns[Len(ns)]
           before == SelectSeq(rest, LAMBDA n : localeCompare(n.id, last.id) <= 0)
           after == SelectSeq(rest, LAMBDA n : localeCompare(n.id, last.id) > 0)
       IN before \o << last >> \o after

\* nodesAtLevel.forEach((node, index) => { positionedNode.x = ...; positionedNode.y = ... })
RECURSIVE CL_PlaceLevel(_, _, _, _, _)
CL_PlaceLevel(laidOutNodes, nodesAtLevel, index, levelX, startY) ==
  IF index >= Len(nodesAtLevel)
  THEN laidOutNodes
  ELSE LET positionedNode == MapGet(laidOutNodes, nodesAtLevel[index + 1].id)
           y == startY + index * (Px(CL_NODE_HEIGHT) + Px(VERTICAL_STACK_SPACING))
                  + Half(Px(CL_NODE_HEIGHT))
       IN CL_PlaceLevel(MapSet(laidOutNodes, [positionedNode EXCEPT !.x = levelX, !.y = y]),
                        nodesAtLevel, index + 1, levelX, startY)

\* for (let level = 0; level <= maxLevel; level++)
RECURSIVE CL_PlaceLevels(_, _, _, _, _)
CL_PlaceLevels(laidOutNodes, flatNodes, level, maxLevel, containerHeight) ==
  IF level > maxLevel
  THEN laidOutNodes
  ELSE LET nodesAtLevel == sortById(LevelNodes(flatNodes, level))
           levelX == level * Px(CL_HORIZONTAL_SPACING) + Half(Px(CL_NODE_WIDTH))
           totalHeightAtLevel == Len(nodesAtLevel) * Px(CL_NODE_HEIGHT)
                                   + (Len(nodesAtLevel) - 1) * Px(VERTICAL_STACK_SPACING)
           startY == Half(Px(containerHeight)) - Half(totalHeightAtLevel)
                       + Px(TIMELINE_CENTER_Y_OFFSET)
       IN CL_PlaceLevels(CL_PlaceLevel(laidOutNodes, nodesAtLevel, 0, levelX, startY),
                         flatNodes, level + 1, maxLevel, containerHeight)

CL_calculateLayout(flatNodes, containerWidth, containerHeight) ==
  IF Len(flatNodes) = 0
  THEN << >>
  ELSE LET maxLevel == SetMax({ flatNodes[i].level : i \in DOMAIN flatNodes } \cup {0})
           placed == CL_PlaceLevels(MapFromEntries(<< >>, flatNodes), flatNodes, 0, maxLevel,
                                    containerHeight)
           minX == SetMin({ placed[i].x - Half(Px(CL_NODE_WIDTH)) : i \in DOMAIN placed })
           maxX == SetMax({ placed[i].x + Half(Px(CL_NODE_WIDTH)) : i \in DOMAIN placed })
           contentWidth == maxX - minX
           offsetX == IF contentWidth > Px(containerWidth)
                      THEN Px(50) - minX
                      ELSE Max(Px(50), Half(Px(containerWidth) - contentWidth) - minX)
       IN [i \in DOMAIN placed |-> [placed[i] EXCEPT !.x = @ + offsetX]]

\* the passive effects of one commit of ChronologicalLine, in their order:
\* the data effect on [data, flattenTree] (setNodes(flat)), the resize effect
\* on [isFullScreen, calculateLayout, nodes.length] (its initial call of
\* handleResize: setNodes(prev => calculateLayout(prev, ...))) and the
\* dimensions effect on [nodes, isFullScreen], which reads the rendered list
Chrono_effects ==
  /\ ViewMounted("chronological")
  /\ LET dataRuns == ~dataEffectRan
         resizeRuns == effectDeps # ChronoDeps
         dimsRuns == drawDeps # [nodesRef |-> nodesRef, isFullScreen |-> isFullScreen]
         actualWidth == IF isFullScreen THEN WindowSize[1] ELSE container[1]
         actualHeight == IF isFullScreen THEN WindowSize[2] ELSE Max(container[2], 600)
         flat == IF dataRuns
                 THEN FG_flattenTree(etymologyData, "", 0, 0, CL_NODE_WIDTH, CL_NODE_HEIGHT)
                 ELSE nodes
         maxX == SetMax({ nodes[i].x + Half(Px(CL_NODE_WIDTH)) : i \in DOMAIN nodes }
                          \cup { Px(actualWidth) })
         maxY == SetMax({ nodes[i].y + Half(Px(CL_NODE_HEIGHT)) : i \in DOMAIN nodes }
                          \cup { Px(actualHeight) })
     IN /\ dataRuns \/ resizeRuns \/ dimsRuns
        /\ nodes' = IF resizeRuns THEN CL_calculateLayout(flat, actualWidth, actualHeight)
                    ELSE flat
        /\ nodesRef' = IF dataRuns \/ resizeRuns THEN 1 - nodesRef ELSE nodesRef
        /\ svgDimensions' = IF dimsRuns /\ Len(nodes) > 0
                            THEN [width |-> maxX + Px(50), height |-> maxY + Px(50)]
                            ELSE svgDimensions
  /\ dataEffectRan' = TRUE
  /\ effectDeps' = ChronoDeps
  /\ drawDeps' = [nodesRef |-> nodesRef, isFullScreen |-> isFullScreen]
  /\ UNCHANGED <<visualizationMode, container, transformState, initialTransformSet,
                 listener, lastLayout, searchTerm, panVars>>
  /\ UNCHANGED <<exportVars, isFullScreen, simulations, lastTick>>
  /\ UNCHANGED appVars

\* a window 'resize' event while ChronologicalLine is mounted: handleResize
Chrono_onResize(rect) ==
  /\ ViewMounted("chronological") /\ EffectsIdle
  /\ container' = rect
  /\ nodes' = CL_calculateLayout(nodes,
                 IF isFullScreen THEN WindowSize[1] ELSE rect[1],
                 IF isFullScreen THEN WindowSize[2] ELSE Max(rect[2], 600))
  /\ nodesRef' = 1 - nodesRef
  /\ UNCHANGED <<visualizationMode, svgDimensions, transformState, initialTransformSet,
                 dataEffectRan, effectDeps, listener, lastLayout>>
  /\ UNCHANGED <<drawDeps, searchTerm, panVars>>
  /\ UNCHANGED <<exportVars, isFullScreen, simulations, lastTick>>
  /\ UNCHANGED appVars

-----------------------------------------------------------------------------
(* The search lifecycle *)

Init ==
  /\ activePage = "home"
  /\ etymologyData = Null
  /\ isLoading = FALSE
  /\ loadingProgress = 0
  /\ error = NullStr
  /\ currentSearchWord = ""
  /\ showConfetti = FALSE
  /\ tooltip = Null
  /\ inputWord = ""
  /\ calls = << >>
  /\ confettiTimers = 0
  /\ nAccepted = 0
  /\ nIssued = 0
  /\ lastIssued = ""
  /\ visualizationMode = "tree"
  /\ container = <<800, 600>>
  /\ searchTerm = ""
  /\ Mounted
  /\ InitOther

Next ==
  \/ \E w \in InputTexts : TypeWord(w)
  \/ ClickBloom
  \/ PressEnter
  \/ OpenGarden
  \/ CloseGarden
  \/ \E seed \in seeds : GardenSelect(seed)
  \/ NodeHover
  \/ NodeLeave
  \/ \E i \in DOMAIN calls : \E p \in ProgressSamples : ProgressTick(i, p)
  \/ ConfettiTimeout
  \/ \E i \in DOMAIN calls : \E a \in Answers : AnswerArrives(i, a)
  \/ \E i \in DOMAIN calls : DelayElapsed(i)

Spec == Init /\ [][Next]_vars

\* every generateContent call is answered (the promise settles) and every
\* setTimeout of delay() fires
\* the counters start so that two accepted searches (three issued) follow
InitFair ==
  /\ activePage = "home"
  /\ etymologyData = Null
  /\ isLoading = FALSE
  /\ loadingProgress = 0
  /\ error = NullStr
  /\ currentSearchWord = ""
  /\ showConfetti = FALSE
  /\ tooltip = Null
  /\ inputWord = ""
  /\ calls = << >>
  /\ confettiTimers = 0
  /\ nAccepted = MaxCalls - 2
  /\ nIssued = MaxIssued - 3
  /\ lastIssued = ""
  /\ visualizationMode = "tree"
  /\ container = <<800, 600>>
  /\ searchTerm = ""
  /\ Mounted
  /\ InitOther

SpecFair ==
  /\ InitFair /\ [][Next]_vars
  /\ WF_vars(\E i \in DOMAIN calls : \E a \in Answers : AnswerArrives(i, a))
  /\ WF_vars(\E i \in DOMAIN calls : DelayElapsed(i))

-----------------------------------------------------------------------------
(* The views: a tree has been fetched and is rendered *)

InitLayout ==
  /\ activePage = "home"
  /\ etymologyData \in Trees
  /\ isLoading = FALSE
  /\ loadingProgress = 100
  /\ error = NullStr
  /\ currentSearchWord = "night"
  /\ showConfetti = FALSE
  /\ tooltip = Null
  /\ inputWord = "night"
  /\ calls = << >>
  /\ confettiTimers = 0
  /\ nAccepted = 1
  /\ nIssued = 1
  /\ lastIssued = "night"
  /\ visualizationMode = "tree"
  /\ container = <<800, 600>>
  /\ searchTerm = ""
  /\ Mounted
  /\ InitOther

NextLayout ==
  \/ TreeDiagram_layoutEffect
  \/ TreeDiagram_dataEffect
  \/ \E rect \in Sizes : TreeDiagram_onResize(rect)
  \/ Flowchart_layoutEffect
  \/ Flowchart_dataEffect
  \/ \E rect \in Sizes : Flowchart_containerResized(rect)
  \/ \E mode \in {"tree", "flowchart"} : SetVisualizationMode(mode)

SpecLayout == InitLayout /\ [][NextLayout]_vars

-----------------------------------------------------------------------------
(* The views and the size of their container: the four views, with container *)
(* sizes down to a width of 0                                                *)

SmallTrees == UNION { TreesNQ(n, q) : n \in 1..3, q \in 0..1 }

ViewSizes == Sizes \cup { <<0, 600>>, <<150, 600>> }

VizModes == {"tree", "flowchart", "radial", "edgeBundling"}

InitViews ==
  /\ activePage = "home"
  /\ etymologyData \in SmallTrees
  /\ isLoading = FALSE
  /\ loadingProgress = 100
  /\ error = NullStr
  /\ currentSearchWord = "night"
  /\ showConfetti = FALSE
  /\ tooltip = Null
  /\ inputWord = "night"
  /\ calls = << >>
  /\ confettiTimers = 0
  /\ nAccepted = 1
  /\ nIssued = 1
  /\ lastIssued = "night"
  /\ visualizationMode = "tree"
  /\ container = <<800, 600>>
  /\ searchTerm = ""
  /\ Mounted
  /\ InitOther

NextViews ==
  \/ TreeDiagram_layoutEffect
  \/ TreeDiagram_dataEffect
  \/ \E rect \in ViewSizes : TreeDiagram_onResize(rect)
  \/ Flowchart_layoutEffect
  \/ Flowchart_dataEffect
  \/ \E rect \in ViewSizes : Flowchart_containerResized(rect)
  \/ Radial_layoutEffect
  \/ Radial_drawEffect
  \/ HEB_layoutEffect
  \/ \E rect \in ViewSizes : D3View_containerResized(rect)
  \/ \E mode \in VizModes : SetVisualizationMode(mode)
  \/ \E t \in SearchTerms : SetSearchTerm(t)

SpecViews == InitViews /\ [][NextViews]_vars

-----------------------------------------------------------------------------
(* Pan and zoom: the wheel and the mouse on TreeDiagram and FlowchartDiagram *)

InteractTrees ==
  { MkTree(<<"a", "L">>, << >>),
    MkTree(<<"a", "L">>, << MkTree(<<"b", "L">>, << >>) >>) }

InitInteract ==
  /\ activePage = "home"
  /\ etymologyData \in InteractTrees
  /\ isLoading = FALSE
  /\ loadingProgress = 100
  /\ error = NullStr
  /\ currentSearchWord = "night"
  /\ showConfetti = FALSE
  /\ tooltip = Null
  /\ inputWord = "night"
  /\ calls = << >>
  /\ confettiTimers = 0
  /\ nAccepted = 1
  /\ nIssued = 1
  /\ lastIssued = "night"
  /\ visualizationMode = "tree"
  /\ container = <<800, 600>>
  /\ searchTerm = ""
  /\ Mounted
  /\ InitOther

NextInteract ==
  \/ TreeDiagram_layoutEffect
  \/ TreeDiagram_dataEffect
  \/ \E rect \in Sizes : TreeDiagram_onResize(rect)
  \/ Flowchart_layoutEffect
  \/ Flowchart_dataEffect
  \/ \E mode \in {"tree", "flowchart"} : SetVisualizationMode(mode)
  \/ \E deltaY \in WheelDeltas : handleWheel(deltaY)
  \/ \E p \in Pointers : handleMouseDown(p)
  \/ \E p \in Pointers : handleMouseMove(p)
  \/ onMouseUp
  \/ onMouseLeave

SpecInteract == InitInteract /\ [][NextInteract]_vars

-----------------------------------------------------------------------------
(* Hover: a fetched tree is shown in FlowchartDiagram or RadialTree *)

InitHover ==
  /\ activePage = "home"
  /\ etymologyData \in HoverTrees
  /\ isLoading = FALSE
  /\ loadingProgress = 100
  /\ error = NullStr
  /\ currentSearchWord = "a"
  /\ showConfetti = FALSE
  /\ tooltip = Null
  /\ inputWord = "a"
  /\ calls = << >>
  /\ confettiTimers = 0
  /\ nAccepted = 1
  /\ nIssued = 1
  /\ lastIssued = "a"
  /\ visualizationMode = "flowchart"
  /\ container = <<800, 600>>
  /\ searchTerm = ""
  /\ Mounted
  /\ InitOther

NextHover ==
  \/ Flowchart_layoutEffect
  \/ Flowchart_dataEffect
  \/ Radial_layoutEffect
  \/ Radial_drawEffect
  \/ \E mode \in {"flowchart", "radial"} : SetVisualizationMode(mode)
  \/ \E i \in 1..2 : \E p \in Pointers : Flowchart_onMouseEnter(i, p)
  \/ \E i \in 1..2 : \E p \in Pointers : Radial_mouseenter(i, p)
  \/ Node_onMouseLeave
  \/ onMouseLeave

SpecHover == InitHover /\ [][NextHover]_vars

-----------------------------------------------------------------------------
(* Export: a tree is shown as TreeDiagram, ListView or                       *)
(* HierarchicalEdgeBundling; the garden starts further searches              *)

InitExport ==
  /\ activePage = "home"
  /\ etymologyData = ServiceTree("night")
  /\ isLoading = FALSE
  /\ loadingProgress = 100
  /\ error = NullStr
  /\ currentSearchWord = "night"
  /\ showConfetti = FALSE
  /\ tooltip = Null
  /\ inputWord = "night"
  /\ calls = << >>
  /\ confettiTimers = 0
  /\ nAccepted = MaxCalls - 1
  /\ nIssued = MaxIssued - 1
  /\ lastIssued = "night"
  /\ visualizationMode = "tree"
  /\ container = <<800, 600>>
  /\ searchTerm = ""
  /\ Mounted
  /\ InitOther

NextExport ==
  \/ \E f \in ExportFormats : ClickExportFormat(f)
  \/ View_exportEffect
  \/ \E i \in 1..2 : \E ok \in BOOLEAN : ExportReturns(i, ok)
  \/ ExportResetTimeout
  \/ \E mode \in {"tree", "list", "edgeBundling"} : SetVisualizationMode(mode)
  \/ TreeDiagram_layoutEffect
  \/ TreeDiagram_dataEffect
  \/ HEB_layoutEffect
  \/ OpenGarden
  \/ CloseGarden
  \/ \E seed \in seeds : GardenSelect(seed)
  \/ \E i \in DOMAIN calls :
       \E a \in {Text("{json}", TRUE), Rejected("500 INTERNAL")} : AnswerArrives(i, a)

SpecExport == InitExport /\ [][NextExport]_vars

-----------------------------------------------------------------------------
(* The force graph and the timeline: a tree is shown as ForceDirectedGraph,  *)
(* ChronologicalLine or ListView; the garden starts one further search       *)

InitForce ==
  /\ activePage = "home"
  /\ etymologyData \in SmallTrees
  /\ isLoading = FALSE
  /\ loadingProgress = 100
  /\ error = NullStr
  /\ currentSearchWord = "night"
  /\ showConfetti = FALSE
  /\ tooltip = Null
  /\ inputWord = "night"
  /\ calls = << >>
  /\ confettiTimers = 0
  /\ nAccepted = MaxCalls - 1
  /\ nIssued = MaxIssued - 1
  /\ lastIssued = "night"
  /\ visualizationMode = "force"
  /\ container = <<800, 600>>
  /\ searchTerm = ""
  /\ Mounted
  /\ InitOther

NextForce ==
  \/ Force_layoutEffect
  \/ Force_dataEffect
  \/ \E k \in 1..2 : Force_tick(k)
  \/ ToggleFullScreen
  \/ \E mode \in {"force", "chronological", "list"} : SetVisualizationMode(mode)
  \/ Chrono_effects
  \/ \E rect \in Sizes : Chrono_onResize(rect)
  \/ OpenGarden
  \/ CloseGarden
  \/ \E seed \in seeds : GardenSelect(seed)
  \/ \E i \in DOMAIN calls :
       \E a \in {Text("{json}", TRUE), Rejected("500 INTERNAL")} : AnswerArrives(i, a)

SpecForce == InitForce /\ [][NextForce]_vars

-----------------------------------------------------------------------------
(* After the load: a tree is shown as TreeDiagram or ChronologicalLine and   *)
(* only the effects of the view run (no resize, no full-screen event)        *)

InitSettle ==
  /\ activePage = "home"
  /\ etymologyData \in SmallTrees
  /\ isLoading = FALSE
  /\ loadingProgress = 100
  /\ error = NullStr
  /\ currentSearchWord = "night"
  /\ showConfetti = FALSE
  /\ tooltip = Null
  /\ inputWord = "night"
  /\ calls = << >>
  /\ confettiTimers = 0
  /\ nAccepted = 1
  /\ nIssued = 1
  /\ lastIssued = "night"
  /\ visualizationMode \in {"tree", "chronological"}
  /\ container \in Sizes
  /\ searchTerm = ""
  /\ Mounted
  /\ InitOther

NextSettle ==
  \/ TreeDiagram_layoutEffect
  \/ TreeDiagram_dataEffect
  \/ Chrono_effects

\* React runs every effect whose dependencies changed: weak fairness of the
\* effects, WF_vars(NextSettle), with 'an effect is left to run' (~EffectsIdle)
\* written for ENABLED <<NextSettle>>_vars
SpecSettle ==
  /\ InitSettle /\ [][NextSettle]_vars
  /\ ([]<>EffectsIdle \/ []<><<NextSettle>>_vars)

-----------------------------------------------------------------------------
(* Properties of the search lifecycle *)

PendingCalls == { i \in DOMAIN calls : Pending(calls[i]) }

RateLimited(n) == [k \in 1..n |-> Rejected("429 RESOURCE_EXHAUSTED")]

\* C1: when search B is issued while search A's fetch is pending and A
\* resolves afterwards, the tree rendered is B's and A's is never rendered:
\* whenever a tree is rendered it is the result for the latest issued word.
C1_SupersededResultDiscarded ==
  etymologyData # Null => etymologyData.word = lastIssued

\* C2: at most one fetchEtymology request started by handleBloom is pending,
\* and a handleBloom call made while isLoading starts no request and changes
\* no state that handleBloom writes.
C2_SingleInFlight ==
  /\ [](Cardinality(PendingCalls) <= 1)
  /\ [][(isLoading /\ nIssued' # nIssued) =>
          UNCHANGED <<etymologyData, isLoading, loadingProgress, error,
                      currentSearchWord, showConfetti, tooltip, calls,
                      confettiTimers, nAccepted>>]_vars

C2_Witness == isLoading /\ nIssued > nAccepted /\ Cardinality(PendingCalls) = 1

\* C3: with the default budget, three rate-limited answers followed by a
\* tree resolve with that tree after exactly 3 retries (4 attempts); four
\* rate-limited answers end the call after the 4th attempt with the generic
\* failure; no call makes a 5th attempt.
C3_RetryBudget ==
  \A i \in DOMAIN calls :
    LET c == calls[i] IN
    /\ c.attempts <= DefaultRetries + 1
    /\ (c.pc = "done" /\ c.history = RateLimited(3) \o << Text("{json}", TRUE) >>) =>
         /\ c.outcome = "data" /\ c.attempts = 4 /\ Len(c.waits) = 3
         /\ etymologyData = ServiceTree(c.word) /\ error = NullStr
    /\ (Len(c.history) >= 4 /\ SubSeq(c.history, 1, 4) = RateLimited(4)) =>
         /\ c.pc = "done" /\ c.outcome = "threw" /\ c.attempts = 4 /\ Len(c.history) = 4
         /\ etymologyData = Null /\ error = BloomFailedMessage

C3_Witness ==
  \E i \in DOMAIN calls :
    calls[i].pc = "done" /\ calls[i].history = RateLimited(3) \o << Text("{json}", TRUE) >>

C3_WitnessExhausted ==
  \E i \in DOMAIN calls : calls[i].pc = "done" /\ calls[i].history = RateLimited(4)

\* C4: only rate-limit failures are retried: an answer that is not a
\* rate-limit rejection (malformed text, empty text, any other error) is the
\* last answer of its call, and the call has settled.
C4_OnlyRateLimitRetried ==
  \A i \in DOMAIN calls :
    \A k \in 1..Len(calls[i].history) :
      ~IsRateLimit(calls[i].history[k]) =>
        k = Len(calls[i].history) /\ calls[i].pc = "done"

\* C5: every failing search (fetch threw, whatever the error, or returned
\* null) leaves the same fixed error message and no tree.
C5_GenericFailure ==
  \A i \in DOMAIN calls :
    (calls[i].pc = "done" /\ calls[i].outcome \in {"threw", "null"}) =>
      error = BloomFailedMessage /\ etymologyData = Null

C5_Witness ==
  \E i \in DOMAIN calls :
    /\ calls[i].pc = "done" /\ calls[i].outcome = "threw"
    /\ calls[i].history = << Rejected("500 INTERNAL") >>
    /\ ~isLoading

C5_WitnessNull ==
  \E i \in DOMAIN calls : calls[i].pc = "done" /\ calls[i].outcome = "null"

\* C6: while loading there is neither a tree nor an error; an error excludes
\* a tree; a tree is present only after a successful fetch of the current word.
C6_TreeLifecycle ==
  /\ isLoading => (etymologyData = Null /\ error = NullStr)
  /\ error # NullStr => etymologyData = Null
  /\ etymologyData # Null =>
       \E i \in DOMAIN calls :
         /\ calls[i].pc = "done" /\ calls[i].outcome = "data"
         /\ etymologyData = ServiceTree(calls[i].word)
         /\ calls[i].word = currentSearchWord

\* a second search is loading after a first one rendered its tree
C6_Witness ==
  isLoading /\ confettiTimers > 0 /\ nAccepted = 2 /\ etymologyData = Null

\* C24: every word passed to fetchEtymology is a non-empty string with no
\* leading or trailing whitespace, whatever was typed in the search box or
\* selected in the garden.
C24_SearchWordShape ==
  \A i \in DOMAIN calls : calls[i].word # "" /\ calls[i].word = Trim(calls[i].word)

\* what the code does: the word is the text as typed, which is not blank
C24_SearchWordNotBlank ==
  \A i \in DOMAIN calls :
    /\ Trim(calls[i].word) # ""
    /\ calls[i].word \in InputTexts \cup seeds

SearchEnded ==
  /\ ~isLoading
  /\ \A i \in DOMAIN calls : ~calls[i].interval
  /\ tooltip = Null
  /\ (etymologyData # Null) # (error # NullStr)

\* C29: if every fetch attempt eventually answers, every accepted handleBloom
\* eventually reaches isLoading = false with the progress timer cleared, the
\* tooltip cleared, and exactly one of etymologyData and error non-null.
C29_EverySearchEnds ==
  \A n \in (MaxCalls - 1)..MaxCalls :
    (nAccepted = n /\ isLoading) ~> (nAccepted = n /\ SearchEnded)

\* a second search ended with the error after its retries were used up
C29_Witness ==
  /\ nAccepted = MaxCalls /\ SearchEnded /\ error # NullStr
  /\ \E i \in DOMAIN calls : calls[i].pc = "done" /\ calls[i].attempts = 4

-----------------------------------------------------------------------------
(* Properties of the normalisation and the layout *)

Range(f) == { f[i] : i \in DOMAIN f }

\* the positions of a tree: a path is the sequence of child positions from the root
RECURSIVE PreorderPaths(_, _)
PreorderPaths(tree, path) ==
  << path >> \o Flatten([k \in 1..Len(tree.children) |->
                           PreorderPaths(tree.children[k], Append(path, k))])

RECURSIVE Subtree(_, _)
Subtree(tree, path) ==
  IF path = << >> THEN tree ELSE Subtree(tree.children[Head(path)], Tail(path))

IsPrefix(p, q) == Len(p) <= Len(q) /\ SubSeq(q, 1, Len(p)) = p

InvalidAt(tree, path) ==
  Subtree(tree, path).word = "" \/ Subtree(tree, path).language = ""

InvalidPaths(tree) == { p \in Range(PreorderPaths(tree, << >>)) : InvalidAt(tree, p) }

\* the positions outside every invalid node's subtree, in pre-order
KeptPaths(tree) ==
  SelectSeq(PreorderPaths(tree, << >>),
            LAMBDA p : \A q \in InvalidPaths(tree) : ~IsPrefix(q, p))

IdAt(tree, path) ==
  NodeId(Subtree(tree, path).word, Subtree(tree, path).language, Len(path),
         IF path = << >> THEN 0 ELSE path[Len(path)] - 1)

\* nodes holds the output of flattenTree, not yet laid out
Flattened == dataEffectRan /\ lastLayout = Null

\* C7: for a tree whose nodes all have a non-empty word and language, the
\* ids of the list produced by TreeDiagram's flattenTree are pairwise distinct.
C7_IdsPairwiseDistinct ==
  (visualizationMode = "tree" /\ Flattened /\ InvalidPaths(etymologyData) = {}) =>
    \A i, j \in DOMAIN nodes : i # j => nodes[i].id # nodes[j].id

\* C8: the list produced by flattenTree (both views) has exactly the nodes
\* outside the subtrees of invalid nodes, in pre-order, each with its word,
\* language and level; no childrenIds holds the id of an invalid child, and
\* childrenIds are the ids of the valid children; an invalid root gives the
\* empty list.
C8_ValidityFiltering ==
  Flattened =>
    LET tree == etymologyData
        kept == KeptPaths(tree)
    IN /\ Len(nodes) = Len(kept)
       /\ InvalidAt(tree, << >>) => nodes = << >>
       /\ \A k \in DOMAIN kept :
            LET t == Subtree(tree, kept[k])
                childPaths == [j \in 1..Len(t.children) |-> Append(kept[k], j)]
            IN /\ nodes[k].word = t.word
               /\ nodes[k].language = t.language
               /\ nodes[k].level = Len(kept[k])
               /\ nodes[k].id = IdAt(tree, kept[k])
               /\ \A j \in DOMAIN childPaths :
                    InvalidAt(tree, childPaths[j]) =>
                      IdAt(tree, childPaths[j]) \notin Range(nodes[k].childrenIds)
               /\ nodes[k].childrenIds =
                    LET validChildren == SelectSeq(childPaths, LAMBDA c : ~InvalidAt(tree, c))
                    IN [j \in DOMAIN validChildren |-> IdAt(tree, validChildren[j])]

\* an invalid node with a subtree of its own and a sibling, flattened by FlowchartDiagram
C8_Witness ==
  /\ Flattened /\ visualizationMode = "flowchart"
  /\ \E p \in InvalidPaths(etymologyData) :
       /\ p # << >>
       /\ Subtree(etymologyData, p).children # << >>
       /\ Len(Subtree(etymologyData, SubSeq(p, 1, Len(p) - 1)).children) >= 2
  /\ Len(nodes) >= 2

C8_WitnessTree ==
  /\ Flattened /\ visualizationMode = "tree"
  /\ \E p \in InvalidPaths(etymologyData) : p # << >>
  /\ Len(nodes) >= 2

BoxMinX(ns, w) == SetMin({ ns[i].x - Half(Px(w)) : i \in DOMAIN ns })
BoxMaxX(ns, w) == SetMax({ ns[i].x + Half(Px(w)) : i \in DOMAIN ns })
BoxMinY(ns, h) == SetMin({ ns[i].y - Half(Px(h)) : i \in DOMAIN ns })
BoxMaxY(ns, h) == SetMax({ ns[i].y + Half(Px(h)) : i \in DOMAIN ns })

\* C9: after every calculateLayout call of TreeDiagram with container size
\* (W, H), the bounding box of the returned node boxes is centred at
\* (W/2, H/2).
C9_TreeCentred ==
  (visualizationMode = "tree" /\ lastLayout # Null) =>
    /\ BoxMinX(nodes, NODE_WIDTH) + BoxMaxX(nodes, NODE_WIDTH) = Px(lastLayout.width)
    /\ BoxMinY(nodes, NODE_HEIGHT) + BoxMaxY(nodes, NODE_HEIGHT) = Px(lastLayout.height)

RootOnly(tree) == tree.word # "" /\ tree.language # "" /\ tree.children = << >>

SingleNodeCentred ==
  /\ Len(nodes) = 1
  /\ 2 * nodes[1].x = Px(lastLayout.width)
  /\ 2 * nodes[1].y = Px(lastLayout.height)

\* C10: for a root-only tree, flattenTree followed by calculateLayout with
\* container size (W, H) returns exactly one node, at x = W/2, y = H/2, in
\* TreeDiagram and in FlowchartDiagram.
C10_SingleNodeCentred ==
  (RootOnly(etymologyData) /\ lastLayout # Null) => SingleNodeCentred

\* the FlowchartDiagram half of C10
C10_FlowchartSingleNodeCentred ==
  (RootOnly(etymologyData) /\ lastLayout # Null /\ visualizationMode = "flowchart") =>
    SingleNodeCentred

Abs(v) == IF v >= 0 THEN v ELSE 0 - v

\* C11: in every layout returned by TreeDiagram's calculateLayout, two
\* distinct children of one parent have vertical extents
\* [y - NODE_HEIGHT/2, y + NODE_HEIGHT/2] that are disjoint and at least
\* VERTICAL_SPACING apart: their centres are at least NODE_HEIGHT +
\* VERTICAL_SPACING apart.
C11_NoSiblingOverlap ==
  (visualizationMode = "tree" /\ lastLayout # Null) =>
    \A i, j \in DOMAIN nodes :
      (i # j /\ nodes[i].parentId # "" /\ nodes[i].parentId = nodes[j].parentId) =>
        Abs(nodes[i].y - nodes[j].y) >= Px(NODE_HEIGHT) + Px(VERTICAL_SPACING)

\* a laid-out tree of depth 2 or more in which a node with a sibling has
\* two children of its own
C11_Witness ==
  /\ visualizationMode = "tree" /\ lastLayout # Null
  /\ \E i, j, k, l \in DOMAIN nodes :
       /\ i # j /\ nodes[i].parentId # "" /\ nodes[i].parentId = nodes[j].parentId
       /\ k # l /\ nodes[k].parentId = nodes[i].id /\ nodes[l].parentId = nodes[i].id
       /\ nodes[k].id # nodes[l].id

\* every node has exactly one child or none
IsChain(ns) ==
  \A i \in DOMAIN ns : Cardinality({ j \in DOMAIN ns : ns[j].parentId = ns[i].id }) <= 1

\* C12: in every layout returned by TreeDiagram's calculateLayout the nodes
\* of one depth share one x, the root's column is the leftmost, each depth
\* column is NODE_WIDTH + HORIZONTAL_SPACING to the right of the previous one,
\* and in a chain all nodes have the same y.
C12_ColumnPlacement ==
  (visualizationMode = "tree" /\ lastLayout # Null) =>
    /\ \A i, j \in DOMAIN nodes :
         nodes[i].level = nodes[j].level => nodes[i].x = nodes[j].x
    /\ \A i, j \in DOMAIN nodes :
         nodes[i].level = 0 => nodes[i].x <= nodes[j].x
    /\ \A i, j \in DOMAIN nodes :
         nodes[j].level = nodes[i].level + 1 =>
           nodes[j].x - nodes[i].x = Px(NODE_WIDTH) + Px(HORIZONTAL_SPACING)
    /\ IsChain(nodes) => \A i, j \in DOMAIN nodes : nodes[i].y = nodes[j].y

\* C12 with the column pitch the code uses (LEVEL_OFFSET)
C12_ColumnsAtLevelOffset ==
  (visualizationMode = "tree" /\ lastLayout # Null) =>
    /\ \A i, j \in DOMAIN nodes :
         nodes[i].level = nodes[j].level => nodes[i].x = nodes[j].x
    /\ \A i, j \in DOMAIN nodes :
         nodes[i].level = 0 => nodes[i].x <= nodes[j].x
    /\ \A i, j \in DOMAIN nodes :
         nodes[j].level = nodes[i].level + 1 =>
           nodes[j].x - nodes[i].x = Px(LEVEL_OFFSET)
    /\ IsChain(nodes) => \A i, j \in DOMAIN nodes : nodes[i].y = nodes[j].y

Positions(ns) == [i \in DOMAIN ns |-> <<ns[i].id, ns[i].x, ns[i].y>>]

\* C13: in TreeDiagram, a calculateLayout call on an already laid-out list
\* with the container size of the previous call (an effect re-run, a resize
\* event at the same size) returns the x and y of the previous layout.
C13_LayoutStable ==
  [][(/\ visualizationMode = "tree" /\ visualizationMode' = "tree"
      /\ lastLayout # Null /\ lastLayout' # Null
      /\ lastLayout'.width = lastLayout.width
      /\ lastLayout'.height = lastLayout.height)
     => Positions(nodes') = Positions(nodes)]_vars

\* the half of C13 about resize events: once the effects have settled, a
\* resize event at the size of the last layout does not move the tree
C13_ResizeEventsStable ==
  [][(/\ visualizationMode = "tree" /\ EffectsIdle /\ lastLayout # Null
      /\ ~lastLayout.fresh
      /\ lastLayout' # Null
      /\ lastLayout'.width = lastLayout.width
      /\ lastLayout'.height = lastLayout.height)
     => Positions(nodes') = Positions(nodes)]_vars

\* C15: after the container (or window) size changes while a tree is
\* displayed, the layout is recomputed with the new width and height: once
\* the view's effects have settled, the size of the latest calculateLayout
\* call is the container's size.
C15_RelayoutOnSizeChange ==
  (EffectsIdle /\ lastLayout # Null) =>
    lastLayout.width = container[1] /\ lastLayout.height = container[2]

\* the TreeDiagram half of C15: its window 'resize' listener lays out again
C15_TreeDiagramRelayout ==
  (visualizationMode = "tree" /\ EffectsIdle /\ lastLayout # Null) =>
    lastLayout.width = container[1] /\ lastLayout.height = container[2]

\* the output list has one node per node of the input list, in its order,
\* with the same id, parentId, childrenIds and level
SameNodes(out, inp) ==
  /\ Len(out) = Len(inp)
  /\ \A i \in DOMAIN inp :
       i \in DOMAIN out =>
         /\ out[i].id = inp[i].id /\ out[i].parentId = inp[i].parentId
         /\ out[i].childrenIds = inp[i].childrenIds /\ out[i].level = inp[i].level

DistinctIds(ns) == \A i, j \in DOMAIN ns : i # j => ns[i].id # ns[j].id

\* the list calculateLayout is given in this step, when it is called on a
\* non-empty list: the rendered list in the layout effects, the list of the
\* listener's closure on a resize event
LayoutInput ==
  IF TreeDiagram_layoutEffect \/ Flowchart_layoutEffect THEN nodes
  ELSE IF \E rect \in Sizes : TreeDiagram_onResize(rect) THEN listener.nodes
  ELSE << >>

\* C27: calculateLayout (TreeDiagram and FlowchartDiagram) writes no field of
\* any node of the list it is given (the list is the same after the call,
\* where the listener's closure still holds it) and returns new node objects
\* with the same ids, parentId, childrenIds and level as the input nodes, one
\* per input node.
C27_LayoutKeepsInput ==
  [][Len(LayoutInput) > 0 =>
       /\ SameNodes(nodes', LayoutInput)
       /\ listener' # Null => listener'.nodes = LayoutInput]_vars

\* what the code does: it returns one node per distinct id of the input
C27_LayoutKeepsDistinctInput ==
  [][(Len(LayoutInput) > 0 /\ DistinctIds(LayoutInput)) =>
       /\ SameNodes(nodes', LayoutInput)
       /\ listener' # Null => listener'.nodes = LayoutInput]_vars

-----------------------------------------------------------------------------
(* Properties of the views under a changing container size *)

ValidRoot == ~InvalidAt(etymologyData, << >>)

\* C16: when the measured container width is 0 the layout of a non-empty
\* tree positions no node, and the first later change to a non-zero size
\* triggers a layout of the tree: once the effects have settled in a
\* container of non-zero width, the tree has been laid out for a non-zero
\* width.
C16_ZeroSizeViewport ==
  /\ (visualizationMode = "tree" /\ lastLayout # Null /\ lastLayout.width = 0) =>
       \A i \in DOMAIN nodes : ~(nodes[i].x > Px(-1000))
  /\ (/\ visualizationMode \in {"tree", "flowchart", "radial"}
      /\ EffectsIdle /\ ValidRoot /\ container[1] # 0) =>
       lastLayout # Null /\ lastLayout.width # 0

\* the first half of C16 alone
C16_ZeroWidthPositionsNothing ==
  (visualizationMode = "tree" /\ lastLayout # Null /\ lastLayout.width = 0) =>
    \A i \in DOMAIN nodes : ~(nodes[i].x > Px(-1000))

\* the second half of C16 for RadialTree alone
C16_RadialLaidOutAfterZero ==
  (visualizationMode = "radial" /\ EffectsIdle /\ ValidRoot /\ container[1] # 0) =>
    lastLayout # Null

\* C17: in RadialTree and HierarchicalEdgeBundling the radius of every node
\* is at most min(width, height) / 2 - margin (margin 100 resp. 80), whatever
\* the size of the container.
C17_RadialBound ==
  /\ visualizationMode = "radial" =>
       \A i \in DOMAIN nodes :
         nodes[i].y.num <= nodes[i].y.den *
           (Half(Px(Min(svgDimensions.width, svgDimensions.height))) - Px(RADIAL_MARGIN))
  /\ visualizationMode = "edgeBundling" =>
       \A i \in DOMAIN nodes :
         nodes[i].y.num <= nodes[i].y.den *
           (Half(Px(Min(container[1], container[2]))) - Px(BUNDLING_MARGIN))

\* C17 for RadialTree in containers of at least twice the margin
C17_RadialBoundLargeContainer ==
  (/\ visualizationMode = "radial"
   /\ Min(svgDimensions.width, svgDimensions.height) >= 2 * RADIAL_MARGIN) =>
    \A i \in DOMAIN nodes :
      /\ nodes[i].y.num >= 0
      /\ nodes[i].y.num <= nodes[i].y.den *
           (Half(Px(Min(svgDimensions.width, svgDimensions.height))) - Px(RADIAL_MARGIN))

\* HierarchicalEdgeBundling never lays a tree out
C17_BundlingNeverLaidOut ==
  visualizationMode = "edgeBundling" => nodes = << >>


-----------------------------------------------------------------------------
(* Properties of the search box, the wheel and the mouse *)

ToLowerCase(w) == CASE w = "A" -> "a" [] w = "B" -> "b" [] OTHER -> w

\* C18: for any search term typed in the 'Find root' box, exactly the nodes
\* of TreeDiagram and FlowchartDiagram whose word contains the term as a
\* case-insensitive substring have highlighted = true, all other nodes have
\* highlighted = false, and the empty term highlights no node.  (The words of
\* the trees are single letters, so a word contains a non-empty term exactly
\* when the two are equal up to case.)
C18_SearchHighlighting ==
  (visualizationMode \in {"tree", "flowchart"} /\ etymologyData # Null /\ EffectsIdle) =>
    \A i \in DOMAIN nodes :
      nodes[i].highlighted =
        (searchTerm # "" /\ ToLowerCase(nodes[i].word) = ToLowerCase(searchTerm))

\* what the code does instead: no node of either view is ever highlighted
C18_NothingHighlighted ==
  visualizationMode \in {"tree", "flowchart"} =>
    \A i \in DOMAIN nodes : ~nodes[i].highlighted

C18_TermTyped ==
  /\ visualizationMode \in {"tree", "flowchart"} /\ EffectsIdle
  /\ searchTerm = "A"
  /\ \E i \in DOMAIN nodes : nodes[i].word = "a"

IsSvgEvent(type) ==
  /\ lastMouse' # lastMouse
  /\ lastMouse' # Null
  /\ lastMouse'.type = type

C20_PanIsDrag ==
  [][ IsSvgEvent("move") =>
        IF isPanning
        THEN /\ transformState'.translateX = drag.t0[1] + (lastMouse'.p[1] - drag.p0[1])
             /\ transformState'.translateY = drag.t0[2] + (lastMouse'.p[2] - drag.p0[2])
             /\ transformState'.scale = transformState.scale
        ELSE transformState' = transformState ]_vars

\* the second drag of a view, begun from an already panned translation, has
\* moved the pointer away from where the button went down
C20_Witness ==
  /\ visualizationMode \in {"tree", "flowchart"}
  /\ isPanning /\ nDrags = 2
  /\ lastMouse # Null /\ lastMouse.type = "move" /\ lastMouse.p # drag.p0
  /\ drag.t0[2] # 0
  /\ transformState.translateX = drag.t0[1] + (lastMouse.p[1] - drag.p0[1])
  /\ transformState.translateY = drag.t0[2] + (lastMouse.p[2] - drag.p0[2])


-----------------------------------------------------------------------------
(* Properties of the tooltip *)

\* the node of the fetched tree that node i of the view was made of (the
\* trees shown are chains of valid nodes, which every view lists root first)
GivenNode(i) == Subtree(etymologyData, PreorderPaths(etymologyData, << >>)[i])

Entered == lastMouse # Null /\ lastMouse.type = "enter"

\* C21: at any time at most one tooltip is active (App holds a single
\* tooltip), and whenever a tooltip is active after the pointer entered a node
\* of any visualization, its content is that node's word, language, meaning,
\* era and context exactly as given in the fetched tree; after the pointer
\* leaves the node no tooltip is active.
C21_HoverPayload ==
  /\ (Entered /\ tooltip # Null) =>
       \A f \in {"word", "language", "meaning", "era", "context"} :
         Get(tooltip.content, f) = Get(GivenNode(lastMouse.node), f)
  /\ (lastMouse # Null /\ lastMouse.type \in {"leaveNode", "leave"}) => tooltip = Null

\* what the code does: the tooltip of the entered node carries its word,
\* language and meaning, and it is cleared when the pointer leaves
C21_WordLanguageMeaning ==
  /\ Entered =>
       /\ tooltip # Null
       /\ \A f \in {"word", "language", "meaning"} :
            Get(tooltip.content, f) = Get(GivenNode(lastMouse.node), f)
       /\ \A f \in {"era", "context"} : Get(tooltip.content, f) = Undefined
  /\ (lastMouse # Null /\ lastMouse.type \in {"leaveNode", "leave"}) => tooltip = Null


-----------------------------------------------------------------------------
(* Properties of the force graph and the timeline *)

RunningSimulations == { k \in DOMAIN simulations : simulations[k].running }

C26_EmptyStringsExcluded ==
  ((ViewMounted("force") \/ ViewMounted("chronological")) /\ dataEffectRan) =>
    /\ \A i \in DOMAIN nodes : nodes[i].word # "" /\ nodes[i].language # ""
    /\ Len(nodes) <= Cardinality(KeptPaths(etymologyData))

\* what the code does: the test is typeof ... === 'string', which the empty
\* string passes, so ForceDirectedGraph lists every node of the tree
C26_ForceListsEveryNode ==
  (ViewMounted("force") /\ dataEffectRan) => Len(nodes) = Len(Preorder(etymologyData, 0))

\* C28: after a tree is loaded into TreeDiagram or ChronologicalLine and with
\* no further window-resize or full-screen event, the chain of effects and
\* state updates started by the load performs finitely many re-layouts and
\* then stops: from some point on no effect of the view is left to run.
C28_NoLayoutFeedbackLoop == <>[]EffectsIdle

\* the timeline of a three-node tree has been laid out and measured, and
\* nothing is left to run
C28_Witness ==
  /\ ViewMounted("chronological") /\ EffectsIdle
  /\ Len(nodes) = 3 /\ svgDimensions.width > 0
  /\ \A i \in DOMAIN nodes : nodes[i].x > 0

-----------------------------------------------------------------------------
(* Properties of the export *)

\* C22: every export produces a file named etymos_{w}_{mode}.{ext}, where w
\* is the current search word or 'roots' when there is none, mode is the
\* active visualization mode, and ext is the requested target format (png,
\* svg, pdf or jpeg), for SVG-based views and for the HTML list view alike.
C22_ExportFileName ==
  \A file \in files :
    file.name = "etymos_" \o (IF file.word = "" THEN "roots" ELSE file.word)
                  \o "_" \o file.mode \o "." \o file.format

\* what the code does: the name is as claimed except that the list view
\* writes a png file when svg is requested
C22_ExportFileNameButListSvg ==
  \A file \in files :
    file.name = "etymos_" \o file.word \o "_" \o file.mode \o "."
                  \o (IF file.mode = "list" /\ file.format = "svg"
                      THEN "png" ELSE file.format)

\* C30: at most one export (a call of exportSvgAs or exportHtmlAs) is in
\* progress at any time, no export is started when exportTrigger is null or
\* no tree is rendered, and one click on an export format starts at most one
\* export even though the views re-announce their content on every re-render.
C30_ExportGuard ==
  /\ [](Len(exports) <= 1 /\ nStarted <= nClicks)
  /\ [][nStarted' # nStarted =>
          /\ nStarted' = nStarted + 1
          /\ etymologyData # Null /\ ~isLoading
          /\ exportTrigger # Null \/ nClicks' = nClicks + 1]_vars

\* a second format was clicked while the first export was still in progress,
\* and its export started only after the first had returned and the timer had
\* cleared isExportingRef
C30_Witness ==
  /\ nClicks = 2 /\ nStarted = 2
  /\ Len(exports) = 1 /\ isExportingRef
  /\ \E file \in files : files = {file} /\ file.format # exports[1].format

====
